---- MODULE Spec2Model ----
(***************************************************************************)
(* Reconciliation and release engine of the Tally dashboard backend:       *)
(* the relational store (bill, receipt, release_self, release_transporter),*)
(* the derived views (bill_status, release_status), the release pipeline   *)
(* of routes/dispatch.js with the middleware of middleware/businessRules.js*)
(* and the three ingestion services with their auto-mapping passes.        *)
(***************************************************************************)
EXTENDS Integers, Sequences, FiniteSets, TLC

(***************************************************************************)
(* Bounds and universes                                                    *)
(***************************************************************************)
MaxAmount == 2      \* amounts are 500, 1000, .. 500 * MaxAmount
MaxDate == 2        \* dates range over 1..MaxDate (days)
MaxCycles == 2      \* ingestion cycles started in one run
MaxRequests == 2    \* release requests submitted in one run
MaxMappings == 1    \* manual-mapping and on-demand auto-mapping requests in one run
MaxOpens == 3       \* open-session requests in one run
MaxHints == 1       \* payment hints recorded in one run
MaxOtps == 2        \* OTPs created in one run
MaxEntries == 2     \* petty cash and till adjustment requests in one run
MaxGates == 2       \* gate-log requests in one run
MaxProbes == 2      \* initialize() calls in one run

Null == "NULL"      \* SQL NULL, JS null / undefined
NullNumber == 0 - 1 \* the same, where the value would be a date or an amount

BillNos == {"B1", "B2"}
ReceiptIds == {"R1", "R2"}
Parties == {"P1", "P2"}
Gatepasses == {"G1", "G2"}
Reqs == {"q1", "q2"}            \* HTTP requests in flight at the same time
Cashiers == {"U1", "U2"}        \* users WHERE role = 'CASHIER'
Amounts == {500 * k : k \in 1..MaxAmount}
Dates == 1..MaxDate

VARIABLES
  bill,                 \* table bill: bill_no -> row
  receipt,              \* table receipt: receipt_id -> row
  release_self,         \* table release_self: set of rows
  release_transporter,  \* table release_transporter: set of rows
  rowLock,              \* bill_no -> request holding SELECT ... FOR UPDATE, or Null
  req,                  \* the release requests in flight: request -> its state
  submitted,            \* number of release requests submitted so far
  upBills,              \* sales vouchers the accounting system holds: bill_no -> raw row
  upReceipts,           \* receipt vouchers it holds: receipt_id -> raw row
  isRunning,            \* service -> its "cycle in progress" flag
  cyc,                  \* service -> position of its cycle
  pass,                 \* auto-mapping passes: pass -> position, rows still to do
  clock,                \* CURRENT_TIMESTAMP of the store
  cycles,               \* number of cycles started so far
  mappings,             \* number of mapping requests received so far
  done,                 \* history: what each finished cycle left in the store
  lastRead,             \* the bill_status rows of the latest GET /api/bills/:bill_no
  cashier_session,      \* table cashier_session: set of rows
  sess,                 \* the session requests (open, close) in flight: request -> its state
  opens,                \* number of open-session requests received so far
  payment_hint,         \* table payment_hint: set of rows
  hints,                \* number of payment hints recorded so far
  customer_otp,         \* table customer_otp: set of rows
  otpLog,               \* bills for which verifyOTP has answered valid: true
  otps,                 \* number of OTPs created so far
  tx,                   \* service -> the store transaction its cycle has open
  connection,           \* this.connection of TallyETL
  outcome,              \* service -> how its latest cycle or phase ended
  via,                  \* service -> the channel its cycle fetches through
  counts,               \* service -> billsCount, receiptsCount, mappedCount of its cycle
  connectionMethod,     \* this.connectionMethod of TallyODBCService
  probeResp,            \* what the latest initialize() found and answered
  probes,               \* number of initialize() calls so far
  variable_conflict,    \* plpgsql.variable_conflict of the store
  petty_cash,           \* table petty_cash: set of rows
  till_adjustment,      \* table till_adjustment: set of rows
  entries,              \* number of petty cash and till adjustment requests so far
  cheque_register,      \* table cheque_register: set of rows
  digital_payment_ref,  \* table digital_payment_ref: set of rows
  tillResp,             \* the latest response of payment-hint, session/current or close
  gate_log,             \* table gate_log: set of rows
  gate,                 \* the gate-log requests in flight: request -> its state
  gates,                \* number of gate-log requests received so far
  podResp,              \* the latest response of POST /transport/:bill_no/pod
  clients               \* pass -> pool clients it has acquired and not released

storeVars == <<bill, receipt>>
releaseVars == <<release_self, release_transporter, rowLock, req, submitted>>
syncVars == <<upBills, upReceipts, isRunning, cyc, pass, clock, cycles, mappings, done>>
readVars == <<lastRead>>
cashierVars == <<cashier_session, sess, opens, payment_hint, hints>>
otpVars == <<customer_otp, otpLog, otps>>
probeVars == <<connectionMethod, probeResp, probes>>
ingestVars == <<tx, connection, outcome, via, counts, probeVars>>
tillVars == <<variable_conflict, petty_cash, till_adjustment, entries, cheque_register,
              digital_payment_ref, tillResp>>
gateVars == <<gate_log, gate, gates, podResp>>
poolVars == <<clients>>
vars == <<storeVars, releaseVars, syncVars, readVars, cashierVars, otpVars, ingestVars,
          tillVars, gateVars, poolVars>>

(***************************************************************************)
(* Helpers                                                                 *)
(***************************************************************************)
RECURSIVE SumAmount(_, _)
\* SUM(amount) over a set of receipt ids of table t
SumAmount(t, S) ==
  IF S = {} THEN 0
  ELSE LET r == CHOOSE x \in S : TRUE
       IN t[r].amount + SumAmount(t, S \ {r})

(***************************************************************************)
(* VIEW bill_status                                                        *)
(***************************************************************************)
\* the grouped subquery r of the view: bill_reference -> SUM(amount),
\* over the receipts WHERE bill_reference IS NOT NULL
ReceiptTotalByRef ==
  LET linked == {r \in DOMAIN receipt : receipt[r].bill_reference # Null}
      refs == {receipt[r].bill_reference : r \in linked}
  IN [ref \in refs |->
        SumAmount(receipt, {r \in linked : receipt[r].bill_reference = ref})]

\* a faulty CASE: PAID only above the bill amount
StatusCaseBad(receipt_total, amount) ==
  IF receipt_total > amount THEN "PAID"
  ELSE IF receipt_total = 0 THEN "DUE"
  ELSE "PART-PAID"

\* CASE of the view, in the order of its WHEN branches
StatusCase(receipt_total, amount) ==
  IF receipt_total = 0 THEN "DUE"
  ELSE IF receipt_total >= amount THEN "PAID"
  ELSE "PART-PAID"

\* one row of bill_status (bill b LEFT JOIN r ON b.bill_no = r.bill_no)
bill_status(b) ==
  LET receipt_total == IF b \in DOMAIN ReceiptTotalByRef
                       THEN ReceiptTotalByRef[b] ELSE 0   \* COALESCE(.., 0)
  IN [bill_no |-> b,
      bill_date |-> bill[b].bill_date,
      party_name |-> bill[b].party_name,
      bill_amount |-> bill[b].amount,
      receipt_total |-> receipt_total,
      remaining_due |-> bill[b].amount - receipt_total,
      status |-> StatusCase(receipt_total, bill[b].amount)]

(***************************************************************************)
(* Release pipeline: POST /release/self and POST /release/transporter      *)
(*   validateRelease -> validateGatepassId -> enforceUniqueRelease ->      *)
(*   route handler (approval check, INSERT, COMMIT)                        *)
(***************************************************************************)
NoParams == "absent"     \* req.params is not an object (falsy)
EmptyParams == "{}"      \* req.params is an object without bill_no: what the
                         \* router supplies for a path without parameters
ParamShapes == {NoParams, EmptyParams}

ActiveManagers == {"M1"}             \* users WHERE role = 'MANAGER' AND active
PinOfManager == [m \in ActiveManagers |-> "PIN1"]   \* the PIN behind pin_hash
\* <<manager_pin, otp_verified>> of a request body
Approvals ==
  {<<Null, FALSE>>, <<Null, TRUE>>, <<"PIN1", FALSE>>, <<"PIN9", FALSE>>, <<"PIN9", TRUE>>}
Variants == {"self", "transporter"}

IdleReq ==
  [pc |-> "idle", params |-> NoParams, bill_no |-> Null, gatepass_id |-> Null,
   manager_pin |-> Null, otp_verified |-> FALSE, variant |-> "self",
   remaining_due |-> 0, fresh |-> FALSE, result |-> Null]

\* const { bill_no } = req.params || req.body
ReqBillNo(q) == IF q.params # NoParams THEN Null ELSE q.bill_no

\* SELECT .. FROM release_self WHERE bill_no = $1 UNION ALL
\* SELECT .. FROM release_transporter WHERE bill_no = $1
ReleasesOfBill(b) ==
  {r \in release_self : r.bill_no = b} \cup {r \in release_transporter : r.bill_no = b}

\* SELECT bill_no FROM release_self WHERE gatepass_id = $1 UNION ALL ... release_transporter
ReleasesOfGatepass(g) ==
  {r \in release_self : r.gatepass_id = g}
    \cup {r \in release_transporter : r.gatepass_id = g}

\* a faulty verification: any active manager approves, whatever the PIN
MatchingManagerAny(pin) ==
  IF ActiveManagers # {} THEN CHOOSE m \in ActiveManagers : TRUE ELSE Null

\* the manager whose pin_hash matches manager_pin, or Null (approvedBy stays null)
MatchingManager(pin) ==
  IF \E m \in ActiveManagers : PinOfManager[m] = pin
  THEN CHOOSE m \in ActiveManagers : PinOfManager[m] = pin
  ELSE Null

Finish(q, res) == [req EXCEPT ![q].pc = "done", ![q].result = res]

\* a client sends the release request <<ps, b, g, a, v>>: shape of req.params,
\* bill_no, gatepass_id, <<manager_pin, otp_verified>> and route variant
SubmitRequest(q, ps, b, g, a, v) ==
  /\ req[q].pc = "idle"
  /\ submitted < MaxRequests
  /\ submitted' = submitted + 1
  /\ req' = [req EXCEPT ![q] =
               [pc |-> "validateRelease", params |-> ps, bill_no |-> b,
                gatepass_id |-> g, manager_pin |-> a[1], otp_verified |-> a[2],
                variant |-> v, remaining_due |-> 0,
                fresh |-> (ReleasesOfBill(b) = {} /\ ReleasesOfGatepass(g) = {}),
                result |-> Null]]
  /\ UNCHANGED <<storeVars, syncVars, readVars, poolVars, cashierVars, otpVars, ingestVars, release_self, release_transporter, rowLock, tillVars, gateVars>>

\* a client sends a release request
Submit(q) ==
  \E ps \in ParamShapes, b \in BillNos, g \in Gatepasses, a \in Approvals,
     v \in Variants :
    SubmitRequest(q, ps, b, g, a, v)

\* validateRelease, first query: the bill's row of bill_status
ValidateReleaseStatus(q) ==
  /\ req[q].pc = "validateRelease"
  /\ LET bn == ReqBillNo(req[q]) IN
       IF bn \notin DOMAIN bill
       THEN req' = Finish(q, "404 Bill not found")
       ELSE req' = [req EXCEPT ![q].pc = "validateReleaseExisting",
                               ![q].remaining_due = bill_status(bn).remaining_due]
  /\ UNCHANGED <<storeVars, syncVars, readVars, poolVars, cashierVars, otpVars, ingestVars, release_self, release_transporter, rowLock, submitted, tillVars, gateVars>>

\* validateRelease, second query and the due check
ValidateReleaseExisting(q) ==
  /\ req[q].pc = "validateReleaseExisting"
  /\ IF ReleasesOfBill(ReqBillNo(req[q])) # {}
     THEN req' = Finish(q, "400 Bill already released")
     ELSE IF req[q].remaining_due > 0 /\ req[q].manager_pin = Null
                /\ ~req[q].otp_verified
     THEN req' = Finish(q, "400 Outstanding due requires manager PIN or customer OTP")
     ELSE req' = [req EXCEPT ![q].pc = "validateGatepassId"]
  /\ UNCHANGED <<storeVars, syncVars, readVars, poolVars, cashierVars, otpVars, ingestVars, release_self, release_transporter, rowLock, submitted, tillVars, gateVars>>

ValidateGatepassId(q) ==
  /\ req[q].pc = "validateGatepassId"
  /\ IF ReleasesOfGatepass(req[q].gatepass_id) # {}
     THEN req' = Finish(q, "400 Gatepass ID already used")
     ELSE req' = [req EXCEPT ![q].pc = "enforceUniqueRelease"]
  /\ UNCHANGED <<storeVars, syncVars, readVars, poolVars, cashierVars, otpVars, ingestVars, release_self, release_transporter, rowLock, submitted, tillVars, gateVars>>

\* enforceUniqueRelease: BEGIN; SELECT bill_no FROM bill WHERE bill_no = $1 FOR UPDATE
\* (waits while another transaction holds the row lock)
EnforceUniqueReleaseLock(q) ==
  /\ req[q].pc = "enforceUniqueRelease"
  /\ LET bn == ReqBillNo(req[q]) IN
       IF bn \in DOMAIN bill
       THEN /\ rowLock[bn] = Null
            /\ rowLock' = [rowLock EXCEPT ![bn] = q]
       ELSE UNCHANGED rowLock
  /\ req' = [req EXCEPT ![q].pc = "enforceUniqueReleaseCheck"]
  /\ UNCHANGED <<storeVars, syncVars, readVars, poolVars, cashierVars, otpVars, ingestVars, release_self, release_transporter, submitted, tillVars, gateVars>>

\* ROLLBACK or COMMIT ends the transaction of q and frees its row locks
Unlocked(q) == [b \in DOMAIN rowLock |-> IF rowLock[b] = q THEN Null ELSE rowLock[b]]

\* a faulty re-check: finds no release record
ExistingForLockNone(q) == {}

\* the existing-release query of enforceUniqueRelease, under the row lock
ExistingForLock(q) == ReleasesOfBill(ReqBillNo(q))

\* enforceUniqueRelease: "Double-check no release exists"
EnforceUniqueReleaseCheck(q) ==
  /\ req[q].pc = "enforceUniqueReleaseCheck"
  /\ IF ExistingForLock(req[q]) # {}
     THEN /\ req' = Finish(q, "400 Bill already has a release record")
          /\ rowLock' = Unlocked(q)
     ELSE /\ req' = [req EXCEPT ![q].pc = "handler"]
          /\ UNCHANGED rowLock
  /\ UNCHANGED <<storeVars, syncVars, readVars, poolVars, cashierVars, otpVars, ingestVars, release_self, release_transporter, submitted, tillVars, gateVars>>

\* the route handler: approval check, INSERT, COMMIT
ReleaseHandler(q) ==
  /\ req[q].pc = "handler"
  /\ LET r == req[q]
         approvedBy == IF r.remaining_due > 0 /\ r.manager_pin # Null
                       THEN MatchingManager(r.manager_pin) ELSE Null
         row == [bill_no |-> r.bill_no, gatepass_id |-> r.gatepass_id,
                 approved_by_manager_id |-> approvedBy, delivered |-> FALSE]
         table == IF r.variant = "self" THEN release_self ELSE release_transporter
     IN
       IF r.remaining_due > 0 /\ r.manager_pin # Null /\ approvedBy = Null
       THEN /\ req' = Finish(q, "400 Invalid manager PIN")
            /\ UNCHANGED <<release_self, release_transporter>>
       ELSE IF r.remaining_due > 0 /\ r.manager_pin = Null /\ ~r.otp_verified
       THEN /\ req' = Finish(q, "400 Outstanding due requires manager PIN or verified OTP")
            /\ UNCHANGED <<release_self, release_transporter>>
       ELSE IF r.bill_no \notin DOMAIN bill \/ \E x \in table : x.bill_no = r.bill_no
       THEN \* FOREIGN KEY / UNIQUE (bill_no) violation: caught, ROLLBACK
            /\ req' = Finish(q, "500 Failed to release bill")
            /\ UNCHANGED <<release_self, release_transporter>>
       ELSE /\ req' = Finish(q, "200 released")
            /\ IF r.variant = "self"
               THEN /\ release_self' = release_self \cup {row}
                    /\ UNCHANGED release_transporter
               ELSE /\ release_transporter' = release_transporter \cup {row}
                    /\ UNCHANGED release_self
  /\ rowLock' = Unlocked(q)
  /\ UNCHANGED <<storeVars, syncVars, readVars, poolVars, cashierVars, otpVars, ingestVars, submitted, tillVars, gateVars>>

\* the transaction of q is never ended and its connection never returned to
\* the pool: the row locks it holds stay held
Leaked == "leaked"
Abandoned(q) == [b \in DOMAIN rowLock |-> IF rowLock[b] = q THEN Leaked ELSE rowLock[b]]

\* upload.fields(..) of POST /release/self rejects a file (fileFilter, fileSize):
\* multer passes the error to next(err), the route handler never runs and the
\* default error handler answers; nothing ends the transaction of req.dbClient
UploadFails(q) ==
  /\ req[q].pc = "handler"
  /\ req[q].variant = "self"
  /\ req' = Finish(q, "500 upload error")
  /\ rowLock' = Abandoned(q)
  /\ UNCHANGED <<storeVars, syncVars, readVars, poolVars, cashierVars, otpVars, ingestVars, release_self, release_transporter, submitted, tillVars, gateVars>>

\* a query of the route handler throws: catch, ROLLBACK, release, 500
HandlerQueryError(q) ==
  /\ req[q].pc = "handler"
  /\ req' = Finish(q, "500 Failed to release bill")
  /\ rowLock' = Unlocked(q)
  /\ UNCHANGED <<storeVars, syncVars, readVars, poolVars, cashierVars, otpVars, ingestVars, release_self, release_transporter, submitted, tillVars, gateVars>>

\* the existing-release query of enforceUniqueRelease throws: the catch block
\* tests req.dbClient, which is assigned only after that query, so it neither
\* rolls back nor releases the client
LockQueryError(q) ==
  /\ req[q].pc = "enforceUniqueReleaseCheck"
  /\ req' = Finish(q, "500 Release lock failed")
  /\ rowLock' = Abandoned(q)
  /\ UNCHANGED <<storeVars, syncVars, readVars, poolVars, cashierVars, otpVars, ingestVars, release_self, release_transporter, submitted, tillVars, gateVars>>

\* the response has been sent; the slot serves the next request
Respond(q) ==
  /\ req[q].pc = "done"
  /\ req' = [req EXCEPT ![q] = IdleReq]
  /\ UNCHANGED <<storeVars, syncVars, readVars, poolVars, cashierVars, otpVars, ingestVars, release_self, release_transporter, rowLock, submitted, tillVars, gateVars>>

(***************************************************************************)
(* Ingestion: TallyODBCService (services/tally-odbc.js), TallyXMLETL       *)
(* (services/tally-xml-etl.js) and TallyETL (services/etl.js).             *)
(* Each is a singleton with its own isRunning flag; a cycle is             *)
(*   bills upsert -> receipts upsert -> auto-mapping pass -> finally.      *)
(* Here both channels are reachable and every fetch and every upsert       *)
(* transaction succeeds; the vouchers of the accounting system are well    *)
(* formed and do not change between cycles.                                *)
(***************************************************************************)
Services == {"odbc", "xml", "etl"}
\* auto-mapping passes: the one of each service's cycle, and the one that
\* POST /api/tally-sync/auto-map starts on the TallyODBCService singleton
Passes == Services \cup {"ondemand"}
MapperOf == [p \in Passes |-> IF p = "ondemand" THEN "odbc" ELSE p]

\* who calls runSync / runETL, and on which singleton: the scheduled timer
\* (startRealTimeSync) and POST /api/tally-sync/trigger on TallyODBCService,
\* POST /api/admin/etl/trigger on TallyXMLETL, the standalone script on TallyETL
InvocationPaths == {"timer", "trigger", "admin", "script"}
ServiceOf ==
  [path \in InvocationPaths |->
     CASE path = "timer" -> "odbc"
       [] path = "trigger" -> "odbc"
       [] path = "admin" -> "xml"
       [] path = "script" -> "etl"]

Narrations == {"cash", "BILL:B2"}
\* the narration texts of receipt vouchers: no reference, a reference in the
\* form BILL:<token>, the same followed by more text, the form bill <token>
NarrationTexts == Narrations \cup {"BILL:B2 by cheque", "bill B2"}

\* a narration text cut into its words and separators
Words(narration) ==
  CASE narration = "cash" -> <<"cash">>
    [] narration = "BILL:B2" -> <<"BILL", ":", "B2">>
    [] narration = "BILL:B2 by cheque" -> <<"BILL", ":", "B2", " ", "by", " ", "cheque">>
    [] narration = "bill B2" -> <<"bill", " ", "B2">>

\* [:\s] and the word bill under the flag i
Separators == {":", " "}
BillWords == {"bill", "BILL", "Bill"}

\* the position after the run [:\s]* that starts at position i of w
RECURSIVE SkipSeparators(_, _)
SkipSeparators(w, i) ==
  IF i <= Len(w) /\ w[i] \in Separators THEN SkipSeparators(w, i + 1) ELSE i

\* the positions of w where /bill[:\s]*([A-Z0-9-]+)/i matches
MatchStarts(w) ==
  {i \in 1..Len(w) : w[i] \in BillWords /\ SkipSeparators(w, i + 1) <= Len(w)}

\* narration.match(/bill[:\s]*([A-Z0-9-]+)/i): the captured token of the
\* leftmost match, or null
BillReferenceOf(narration) ==
  LET w == Words(narration) IN
    IF MatchStarts(w) = {} THEN Null
    ELSE LET i == CHOOSE k \in MatchStarts(w) : \A j \in MatchStarts(w) : k <= j
         IN w[SkipSeparators(w, i + 1)]

\* the text of the words of w from position i to position j
RECURSIVE Text(_, _, _)
Text(w, i, j) == IF i > j THEN "" ELSE w[i] \o Text(w, i + 1, j)

\* TRIM: the first and the last position of w[i..] that is not a blank
RECURSIVE TrimLeft(_, _)
TrimLeft(w, i) == IF i <= Len(w) /\ w[i] = " " THEN TrimLeft(w, i + 1) ELSE i
RECURSIVE TrimRight(_, _)
TrimRight(w, j) == IF j >= 1 /\ w[j] = " " THEN TrimRight(w, j - 1) ELSE j

\* CASE WHEN $NARRATION LIKE '%BILL:%' THEN TRIM(SUBSTRING($NARRATION FROM
\* POSITION('BILL:' IN $NARRATION) + 5)) ELSE NULL END of TallyETL's query
SqlBillReference(narration) ==
  LET w == Words(narration)
      at == {i \in 1..(Len(w) - 1) : w[i] = "BILL" /\ w[i + 1] = ":"}
  IN IF at = {} THEN Null
     ELSE LET i == CHOOSE k \in at : \A j \in at : k <= j
          IN Text(w, TrimLeft(w, i + 2), TrimRight(w, Len(w)))

\* the bill reference service s stores for a narration: TallyETL takes the
\* column its query computes, the other two match the narration themselves
ExtractedReference(s, narration) ==
  IF s = "etl" THEN SqlBillReference(narration) ELSE BillReferenceOf(narration)

IdlePass == [pc |-> "idle", todo |-> <<>>, cand |-> Null]

\* no pass holds a client of the pool
NoClients == [p \in Passes |-> 0]

SyncAtRest ==
  /\ upBills = [b \in {} |-> Null]
  /\ upReceipts = [r \in {} |-> Null]
  /\ isRunning = [s \in Services |-> FALSE]
  /\ cyc = [s \in Services |-> "idle"]
  /\ pass = [p \in Passes |-> IdlePass]
  /\ clock = 0
  /\ cycles = 0
  /\ mappings = 0
  /\ done = <<>>
  /\ lastRead = {}
  /\ clients = NoClients

\* let billsCount = 0, receiptsCount = 0 and the mappedCount of the cycle's
\* autoMapReceipts; the counts leave scope when the cycle returns
NoCounts == [bills |-> 0, receipts |-> 0, mapped |-> 0]

\* mappedCount++ of the pass of a cycle
CountMapped(c, p) == IF p \in Services THEN [c EXCEPT ![p].mapped = @ + 1] ELSE c

\* a faulty dispatch: the tabular channel is used in odbc mode only
ChannelOfDocumentFirst(method) == IF method = "odbc" THEN "odbc" ELSE "xml"

\* runSync: syncBillsODBC / syncReceiptsODBC when connectionMethod is 'odbc'
\* or 'hybrid', the functions of the XML ETL service otherwise
ChannelOf(method) == IF method \in {"odbc", "hybrid"} THEN "odbc" ELSE "xml"

\* what initialize() sets: hybrid when both probes succeed, odbc or xml when
\* one does; when none does it throws and leaves connectionMethod as it was
Probed(odbcUp, xmlUp) ==
  IF odbcUp THEN (IF xmlUp THEN "hybrid" ELSE "odbc")
  ELSE IF xmlUp THEN "xml" ELSE "error"

\* no initialize() has answered yet
NoProbe == [odbc |-> FALSE, xml |-> FALSE, result |-> Null]

\* TallyODBCService.initialize() with the outcomes of testODBCConnection and
\* testXMLConnection, as POST /api/tally-sync/initialize answers it
Initialize(odbcUp, xmlUp) ==
  /\ probes < MaxProbes
  /\ probes' = probes + 1
  /\ connectionMethod' = IF Probed(odbcUp, xmlUp) = "error" THEN connectionMethod
                         ELSE Probed(odbcUp, xmlUp)
  /\ probeResp' = [odbc |-> odbcUp, xml |-> xmlUp, result |-> Probed(odbcUp, xmlUp)]
  /\ UNCHANGED <<storeVars, releaseVars, syncVars, readVars, poolVars, cashierVars, otpVars, tx,
                 connection, outcome, via, counts, tillVars, gateVars>>

\* runSync / runETL up to the first await: the isRunning test and assignment
Trigger(path) ==
  /\ LET s == ServiceOf[path] IN
       /\ s = "odbc" => connectionMethod # Null
       /\ IF isRunning[s]
          THEN UNCHANGED <<isRunning, cyc, cycles, via, counts>>  \* "already running"
          ELSE /\ cycles < MaxCycles
               /\ isRunning' = [isRunning EXCEPT ![s] = TRUE]
               /\ cyc' = [cyc EXCEPT ![s] = "bills"]
               /\ cycles' = cycles + 1
               /\ via' = [via EXCEPT ![s] =
                            IF s = "odbc" THEN ChannelOf(connectionMethod) ELSE s]
               /\ counts' = [counts EXCEPT ![s] = NoCounts]
  /\ UNCHANGED <<storeVars, releaseVars, readVars, poolVars, cashierVars, otpVars, tx, connection, outcome, probeVars, upBills, upReceipts, pass, clock, mappings, done, tillVars, gateVars>>

\* INSERT INTO bill .. ON CONFLICT (bill_no) DO UPDATE SET .. for every fetched row
UpsertBills(ts) ==
  [b \in DOMAIN bill \cup DOMAIN upBills |->
     IF b \in DOMAIN upBills
     THEN [bill_date |-> upBills[b].bill_date, party_name |-> upBills[b].party_name,
           amount |-> upBills[b].amount, last_sync_ts |-> ts]
     ELSE bill[b]]

\* INSERT INTO receipt .. ON CONFLICT (receipt_id) DO UPDATE SET ..,
\* bill_reference = EXCLUDED.bill_reference, last_sync_ts = CURRENT_TIMESTAMP
UpsertReceipts(s, ts) ==
  [r \in DOMAIN receipt \cup DOMAIN upReceipts |->
     IF r \in DOMAIN upReceipts
     THEN [receipt_date |-> upReceipts[r].receipt_date,
           party_name |-> upReceipts[r].party_name,
           amount |-> upReceipts[r].amount,
           bill_reference |-> ExtractedReference(s, upReceipts[r].narration),
           last_sync_ts |-> ts]
     ELSE receipt[r]]

\* syncBills / syncBillsODBC: one transaction, committed
SyncBills(s) ==
  /\ cyc[s] = "bills"
  /\ clock' = clock + 1
  /\ bill' = UpsertBills(clock')
  /\ cyc' = [cyc EXCEPT ![s] = "receipts"]
  /\ counts' = [counts EXCEPT ![s].bills = Cardinality(DOMAIN upBills)]
  /\ UNCHANGED <<receipt, releaseVars, readVars, poolVars, cashierVars, otpVars, tx, connection, outcome, via, probeVars, upBills, upReceipts, isRunning, pass, cycles, mappings, done, tillVars, gateVars>>

\* syncReceipts / syncReceiptsODBC: one transaction, committed; the cycle goes
\* on to autoMapReceipts
SyncReceipts(s) ==
  /\ cyc[s] = "receipts"
  /\ clock' = clock + 1
  /\ receipt' = UpsertReceipts(s, clock')
  /\ cyc' = [cyc EXCEPT ![s] = "automap"]
  /\ pass' = [pass EXCEPT ![s] = [pc |-> "select", todo |-> <<>>, cand |-> Null]]
  /\ counts' = [counts EXCEPT ![s].receipts = Cardinality(DOMAIN upReceipts)]
  /\ UNCHANGED <<bill, releaseVars, readVars, poolVars, cashierVars, otpVars, tx, connection, outcome, via, probeVars, upBills, upReceipts, isRunning, cycles, mappings, done, tillVars, gateVars>>

\* the rows of the store without their synchronization timestamps
StoreContent ==
  [bills |-> [b \in DOMAIN bill |->
                [bill_date |-> bill[b].bill_date, party_name |-> bill[b].party_name,
                 amount |-> bill[b].amount]],
   receipts |-> [r \in DOMAIN receipt |->
                   [receipt_date |-> receipt[r].receipt_date,
                    party_name |-> receipt[r].party_name,
                    amount |-> receipt[r].amount,
                    bill_reference |-> receipt[r].bill_reference]]]

\* finally { this.isRunning = false }
EndCycle(s) ==
  /\ cyc[s] = "finally"
  /\ isRunning' = [isRunning EXCEPT ![s] = FALSE]
  /\ cyc' = [cyc EXCEPT ![s] = "idle"]
  /\ done' = Append(done, [service |-> s, store |-> StoreContent,
                           overlap |-> \E t \in Services \ {s} : cyc[t] # "idle"])
  /\ counts' = [counts EXCEPT ![s] = NoCounts]
  /\ UNCHANGED <<storeVars, releaseVars, readVars, poolVars, cashierVars, otpVars, tx, connection, outcome, via, probeVars, upBills, upReceipts, pass, clock, cycles, mappings, tillVars, gateVars>>

(***************************************************************************)
(* Auto-mapping: autoMapReceipts of the three services, statement by       *)
(* statement (each awaits the store; no transaction spans the statements). *)
(***************************************************************************)
\* collation order of the keys of ORDER BY
ReceiptIdOrder == <<"R1", "R2">>
PartyOrder == <<"P1", "P2">>
RankIn(seq, x) == CHOOSE i \in 1..Len(seq) : seq[i] = x

\* the digits of a natural number as character codes, most significant first
RECURSIVE Digits(_)
Digits(n) == IF n < 10 THEN <<48 + n>> ELSE Digits(n \div 10) \o <<48 + (n % 10)>>

\* a DECIMAL(15,2) value as the driver hands it to JavaScript: a string such as
\* "500.00" (here: whole currency units only), as a sequence of character codes
NumericText(n) ==
  (IF n < 0 THEN <<45>> \o Digits(0 - n) ELSE Digits(n)) \o <<46, 48, 48>>

\* JavaScript's a < b on two strings: by character code, a proper prefix first
RECURSIVE StringLess(_, _)
StringLess(a, b) ==
  IF b = <<>> THEN FALSE
  ELSE IF a = <<>> THEN TRUE
  ELSE IF Head(a) # Head(b) THEN Head(a) < Head(b)
  ELSE StringLess(Tail(a), Tail(b))

\* candidateBill.rows[0].remaining_due >= receipt.amount, both strings
StringGreaterOrEqual(due, amount) ==
  ~StringLess(NumericText(due), NumericText(amount))

\* a faulty selection: SELECT * FROM receipt without the WHERE clause
UnmappedReceiptsAll == DOMAIN receipt

\* receipts WHERE bill_reference IS NULL (OR bill_reference = '')
UnmappedReceipts == {r \in DOMAIN receipt : receipt[r].bill_reference = Null}

\* the row of a receipt as the pass holds it after the SELECT
ReceiptRow(r) ==
  [receipt_id |-> r, receipt_date |-> receipt[r].receipt_date,
   party_name |-> receipt[r].party_name, amount |-> receipt[r].amount]

\* ORDER BY receipt_date, receipt_id (odbc, xml); ORDER BY party_name,
\* receipt_date (etl)
OrderedBefore(m, x, y) ==
  IF m = "etl"
  THEN \/ RankIn(PartyOrder, x.party_name) < RankIn(PartyOrder, y.party_name)
       \/ x.party_name = y.party_name /\ x.receipt_date <= y.receipt_date
  ELSE \/ x.receipt_date < y.receipt_date
       \/ /\ x.receipt_date = y.receipt_date
          /\ RankIn(ReceiptIdOrder, x.receipt_id) <= RankIn(ReceiptIdOrder, y.receipt_id)

\* the results the SELECT of unmapped receipts can return: every order of the
\* rows that the ORDER BY clause allows
UnmappedLists(m) ==
  LET S == UnmappedReceipts
      n == Cardinality(S)
  IN {[i \in 1..n |-> ReceiptRow(f[i])] :
        f \in {g \in [1..n -> S] :
                 /\ \A i, j \in 1..n : i # j => g[i] # g[j]
                 /\ \A i, j \in 1..n :
                      i < j => OrderedBefore(m, ReceiptRow(g[i]), ReceiptRow(g[j]))}}

\* the WHERE clause of the candidate query
Eligible(m, rc) ==
  IF m = "etl"
  THEN {b \in DOMAIN bill :
          /\ bill_status(b).party_name = rc.party_name
          /\ bill_status(b).remaining_due > 0
          /\ bill_status(b).bill_date <= rc.receipt_date}
  ELSE {b \in DOMAIN bill :
          /\ bill_status(b).party_name = rc.party_name
          /\ bill_status(b).remaining_due > 0
          /\ bill_status(b).remaining_due >= rc.amount}

\* ORDER BY bill_date LIMIT 1: a row of the earliest date; which one of several
\* rows of that date is not determined by the query
FirstByDate(E) == {b \in E : \A c \in E : bill[b].bill_date <= bill[c].bill_date}

\* the bills the pass can pick for the receipt row rc; {} : no link is made
Candidates(m, rc) ==
  IF m = "etl"
  THEN {b \in FirstByDate(Eligible(m, rc)) :
          StringGreaterOrEqual(bill_status(b).remaining_due, rc.amount)}
  ELSE FirstByDate(Eligible(m, rc))

\* where a pass goes once the rows in rest remain
Continue(p, rest) ==
  IF rest # <<>> THEN [pc |-> "candidate", todo |-> rest, cand |-> Null] ELSE IdlePass

\* a cycle whose pass has returned reaches its finally block
CycAfter(p, rest) ==
  IF rest = <<>> /\ p \in Services THEN [cyc EXCEPT ![p] = "finally"] ELSE cyc

\* POST /api/tally-sync/auto-map: autoMapReceipts outside any cycle, no guard
AutoMapRequest ==
  /\ pass["ondemand"].pc = "idle"
  /\ mappings < MaxMappings
  /\ mappings' = mappings + 1
  /\ pass' = [pass EXCEPT !["ondemand"] = [pc |-> "select", todo |-> <<>>, cand |-> Null]]
  /\ UNCHANGED <<storeVars, releaseVars, readVars, poolVars, cashierVars, otpVars, ingestVars, upBills, upReceipts, isRunning, cyc, clock, cycles, done, tillVars, gateVars>>

\* the clients of pass p once it has taken one from the pool and its SELECT
\* has returned list: it holds the client while rows remain; without a row
\* TallyODBCService and TallyXMLETL skip the loop and reach client.release(),
\* TallyETL returns 0 before it
ClientsAfterSelect(p, list) ==
  IF list = <<>> /\ MapperOf[p] # "etl" THEN clients
  ELSE [clients EXCEPT ![p] = @ + 1]

\* the clients of pass p after a step that leaves the rows in rest: the loop
\* ends with client.release() once no row remains
ClientsAfter(p, rest) ==
  IF rest = <<>> THEN [clients EXCEPT ![p] = @ - 1] ELSE clients

\* const client = await pool.connect(), then
\* SELECT * FROM receipt WHERE bill_reference IS NULL .. ORDER BY ..
PassSelect(p) ==
  /\ pass[p].pc = "select"
  /\ \E list \in UnmappedLists(MapperOf[p]) :
       /\ pass' = [pass EXCEPT ![p] = Continue(p, list)]
       /\ cyc' = CycAfter(p, list)
       /\ clients' = ClientsAfterSelect(p, list)
  /\ UNCHANGED <<storeVars, releaseVars, readVars, cashierVars, otpVars, ingestVars, upBills, upReceipts, isRunning, clock, cycles, mappings, done, tillVars, gateVars>>

\* the candidate query for the first remaining receipt, and the test of its result
PassCandidate(p) ==
  /\ pass[p].pc = "candidate"
  /\ LET rc == Head(pass[p].todo)
         C == Candidates(MapperOf[p], rc)
     IN IF C = {}
        THEN /\ pass' = [pass EXCEPT ![p] = Continue(p, Tail(pass[p].todo))]
             /\ cyc' = CycAfter(p, Tail(pass[p].todo))
             /\ clients' = ClientsAfter(p, Tail(pass[p].todo))
        ELSE /\ \E b \in C :
                  pass' = [pass EXCEPT ![p].pc = "update", ![p].cand = b]
             /\ UNCHANGED <<cyc, clients>>
  /\ UNCHANGED <<storeVars, releaseVars, readVars, cashierVars, otpVars, ingestVars, upBills, upReceipts, isRunning, clock, cycles, mappings, done, tillVars, gateVars>>

\* UPDATE receipt SET bill_reference = $1 WHERE receipt_id = $2
PassUpdate(p) ==
  /\ pass[p].pc = "update"
  /\ LET rc == Head(pass[p].todo) IN
       /\ receipt' = [receipt EXCEPT ![rc.receipt_id].bill_reference = pass[p].cand]
       /\ pass' = [pass EXCEPT ![p] = Continue(p, Tail(pass[p].todo))]
       /\ cyc' = CycAfter(p, Tail(pass[p].todo))
       /\ clients' = ClientsAfter(p, Tail(pass[p].todo))
  /\ counts' = CountMapped(counts, p)
  /\ UNCHANGED <<bill, releaseVars, readVars, cashierVars, otpVars, tx, connection, outcome, via, probeVars, upBills, upReceipts, isRunning, clock, cycles, mappings, done, tillVars, gateVars>>

\* a query of pass p throws (the store is unreachable, a statement times out):
\* the catch block logs; TallyODBCService and TallyXMLETL return 0, TallyETL
\* rethrows to runETL, whose catch block logs; the cycle reaches its finally
\* block.  No catch block releases the client.  At the first query the error
\* is that of pool.connect() (no client was taken) or that of the SELECT
PassQueryError(p) ==
  /\ pass[p].pc \in {"select", "candidate", "update"}
  /\ pass' = [pass EXCEPT ![p] = IdlePass]
  /\ cyc' = CycAfter(p, <<>>)
  /\ IF pass[p].pc = "select"
     THEN \E taken \in {0, 1} : clients' = [clients EXCEPT ![p] = @ + taken]
     ELSE UNCHANGED clients
  /\ UNCHANGED <<storeVars, releaseVars, readVars, cashierVars, otpVars, ingestVars, upBills, upReceipts, isRunning, clock, cycles, mappings, done, tillVars, gateVars>>

\* POST /api/tally-sync/map-receipt {receiptId, billNo}: 404 unless the bill
\* exists, then UPDATE receipt SET bill_reference = billNo WHERE receipt_id = ..
MapReceipt(r, b) ==
  /\ b \in DOMAIN bill
  /\ r \in DOMAIN receipt
  /\ mappings < MaxMappings
  /\ mappings' = mappings + 1
  /\ receipt' = [receipt EXCEPT ![r].bill_reference = b]
  /\ UNCHANGED <<bill, releaseVars, readVars, poolVars, cashierVars, otpVars, ingestVars, upBills, upReceipts, isRunning, cyc, pass, clock, cycles, done, tillVars, gateVars>>

\* GET /api/bills/:bill_no: SELECT bs.* FROM bill_status bs WHERE bs.bill_no = $1
GetBill(b) ==
  /\ lastRead' = {bill_status(x) : x \in {b} \cap DOMAIN bill}
  /\ UNCHANGED <<poolVars, storeVars, releaseVars, syncVars, cashierVars, otpVars, ingestVars, tillVars, gateVars>>

(***************************************************************************)
(* Ingestion cycles step by step, with their failures: the source that     *)
(* cannot be reached, the fetch that throws, the upsert the store rejects, *)
(* the store transaction that fails, and the finally block of each         *)
(* service.  A phase is: fetch, BEGIN, one upsert per fetched record,      *)
(* COMMIT; on an error ROLLBACK and the error is thrown to runSync/runETL. *)
(***************************************************************************)
Phases == {"bills", "receipts"}
NoTx == [phase |-> "none", todo |-> <<>>, writes |-> <<>>]
NoOutcome == [result |-> "none", phase |-> "none", discarded |-> 0]

\* new Date().toISOString().split('T')[0]
Today == MaxDate

\* the vouchers of one phase as the accounting system holds them
Upstream(ph) == IF ph = "bills" THEN upBills ELSE upReceipts

\* the voucher number of raw record k: absent on a voucher that carries none
VoucherNumber(ph, k) ==
  IF "voucher_no" \in DOMAIN Upstream(ph)[k] THEN Upstream(ph)[k].voucher_no ELSE k

\* the date of raw record k
RawDate(ph, k) ==
  IF ph = "bills" THEN upBills[k].bill_date ELSE upReceipts[k].receipt_date

\* if (voucherNumber && date && partyName && amount)
Complete(ph, k) ==
  /\ VoucherNumber(ph, k) # Null
  /\ RawDate(ph, k) # NullNumber
  /\ Upstream(ph)[k].party_name # Null
  /\ Upstream(ph)[k].amount # NullNumber

\* formatTallyDate(tallyDate): today's date for a missing date
formatTallyDate(d) == IF d = NullNumber THEN Today ELSE d

\* parseFloat(amount) || 0
ParseAmount(a) == IF a = NullNumber THEN 0 ELSE a

\* the parameters of the upsert of raw record k, as service s builds them:
\* TallyODBCService formats the date and parses the amount, TallyETL passes
\* the fetched row on, TallyXMLETL upserts what its parser returned
Params(s, ph, k) ==
  LET u == Upstream(ph)[k]
      key == VoucherNumber(ph, k)
      date == IF via[s] = "odbc" THEN formatTallyDate(RawDate(ph, k)) ELSE RawDate(ph, k)
      amount == IF via[s] = "odbc" THEN ParseAmount(u.amount) ELSE u.amount
  IN IF ph = "bills"
     THEN [key |-> key, bill_date |-> date, party_name |-> u.party_name,
           amount |-> amount]
     ELSE [key |-> key, receipt_date |-> date, party_name |-> u.party_name,
           amount |-> amount, bill_reference |-> ExtractedReference(s, u.narration)]

\* collation order of the voucher keys
VoucherOrder == <<"B1", "B2", "R1", "R2">>

\* the records service s holds after a successful fetch, in the order of its
\* loop: parseVouchersFromXML / parseReceiptsFromXML keep complete vouchers
\* only, the ODBC result sets hold every voucher
Fetched(s, ph) ==
  LET keep == {k \in DOMAIN Upstream(ph) : via[s] = "xml" => Complete(ph, k)}
      n == Cardinality(keep)
  IN CHOOSE seq \in [1..n -> keep] :
       /\ \A i, j \in 1..n : i # j => seq[i] # seq[j]
       /\ \A i, j \in 1..n :
            i < j => RankIn(VoucherOrder, seq[i]) < RankIn(VoucherOrder, seq[j])

\* NOT NULL on the key, the date, party_name and amount of bill and receipt
StoreAccepts(ph, row) ==
  /\ row.key # Null
  /\ row.party_name # Null
  /\ row.amount # NullNumber
  /\ (IF ph = "bills" THEN row.bill_date ELSE row.receipt_date) # NullNumber

\* a faulty upsert, ON CONFLICT DO NOTHING: a stored row keeps its values
AppliedInsertOnly(ph, t, writes, ts) ==
  LET keys == {writes[i].key : i \in 1..Len(writes)}
      first(k) == writes[CHOOSE i \in 1..Len(writes) :
                           /\ writes[i].key = k
                           /\ \A j \in 1..Len(writes) : writes[j].key = k => i <= j]
  IN [k \in DOMAIN t \cup keys |->
        IF k \in DOMAIN t \/ k \notin keys THEN t[k]
        ELSE IF ph = "bills"
        THEN [bill_date |-> first(k).bill_date, party_name |-> first(k).party_name,
              amount |-> first(k).amount, last_sync_ts |-> ts]
        ELSE [receipt_date |-> first(k).receipt_date, party_name |-> first(k).party_name,
              amount |-> first(k).amount, bill_reference |-> first(k).bill_reference,
              last_sync_ts |-> ts]]

\* a table after the upserts `writes` (a sequence of parameter rows) of a
\* transaction that committed at time ts
Applied(ph, t, writes, ts) ==
  LET keys == {writes[i].key : i \in 1..Len(writes)}
      last(k) == writes[CHOOSE i \in 1..Len(writes) :
                          /\ writes[i].key = k
                          /\ \A j \in 1..Len(writes) : writes[j].key = k => j <= i]
  IN [k \in DOMAIN t \cup keys |->
        IF k \notin keys THEN t[k]
        ELSE IF ph = "bills"
        THEN [bill_date |-> last(k).bill_date, party_name |-> last(k).party_name,
              amount |-> last(k).amount, last_sync_ts |-> ts]
        ELSE [receipt_date |-> last(k).receipt_date, party_name |-> last(k).party_name,
              amount |-> last(k).amount, bill_reference |-> last(k).bill_reference,
              last_sync_ts |-> ts]]

\* a faulty ROLLBACK: the upserts made so far stay in the table
RolledBackKept(ph, t, writes, ts) == Applied(ph, t, writes, ts)

\* a table after ROLLBACK of a transaction that made the upserts `writes`
RolledBack(ph, t, writes, ts) == t

\* where the cycle of s goes after a phase: the next phase, or autoMapReceipts
AfterPhase(s, ph) ==
  IF ph = "bills" THEN [cyc EXCEPT ![s] = "receipts"] ELSE [cyc EXCEPT ![s] = "automap"]
PassAfterPhase(s, ph) ==
  IF ph = "bills" THEN pass
  ELSE [pass EXCEPT ![s] = [pc |-> "select", todo |-> <<>>, cand |-> Null]]

\* the phase the cycle of s is about to run, no transaction open yet
AtPhase(s, ph) == cyc[s] = ph /\ tx[s].phase = "none"

\* how the fetch of phase ph can fail: at the start of the cycle the source
\* is found unreachable; later the link is lost under a query.  TallyETL opens
\* its connection before the bills query, so that query can fail on an open
\* connection as well
FailureKinds(s, ph) ==
  IF ph = "receipts" THEN {"adapter"}
  ELSE IF s = "etl" THEN {"unavailable", "adapter"}
  ELSE {"unavailable"}

\* the source cannot be reached or the fetch throws: connect() answers false
\* (TallyETL, TallyXMLETL: "skipping ETL cycle", return) or connection.query /
\* the XML request rejects and the catch block of runSync / runETL logs it;
\* either way control passes to the finally block
AdapterFails(s, ph) ==
  /\ AtPhase(s, ph)
  /\ cyc' = [cyc EXCEPT ![s] = "finally"]
  /\ \E kind \in FailureKinds(s, ph) :
       /\ outcome' = [outcome EXCEPT ![s] =
            [result |-> kind, phase |-> ph, discarded |-> 0]]
       /\ connection' = IF s = "etl" /\ kind = "adapter" THEN "broken" ELSE connection
  /\ UNCHANGED <<storeVars, releaseVars, readVars, poolVars, cashierVars, otpVars, upBills,
                 upReceipts, isRunning, pass, clock, cycles, mappings, done, tx, via, counts, probeVars, tillVars, gateVars>>

\* the fetch of phase ph succeeds: an empty result ends the phase ("No new
\* bills"), otherwise pool.connect() and BEGIN
BeginPhase(s, ph) ==
  /\ AtPhase(s, ph)
  /\ connection' = IF s = "etl" /\ ph = "bills" THEN "open" ELSE connection
  /\ IF Fetched(s, ph) = <<>>
     THEN /\ cyc' = AfterPhase(s, ph)
          /\ pass' = PassAfterPhase(s, ph)
          /\ UNCHANGED tx
     ELSE /\ tx' = [tx EXCEPT ![s] = [phase |-> ph, todo |-> Fetched(s, ph),
                                      writes |-> <<>>]]
          /\ UNCHANGED <<cyc, pass>>
  /\ UNCHANGED <<storeVars, releaseVars, readVars, poolVars, cashierVars, otpVars, upBills,
                 upReceipts, isRunning, clock, cycles, mappings, done, outcome, via, counts, probeVars, tillVars, gateVars>>

\* the table a phase writes
TableOf(ph) == IF ph = "bills" THEN bill ELSE receipt

\* catch (error) { ROLLBACK; throw error } of a phase, then the catch block of
\* runSync / runETL: the tables after the rollback, and the cycle at finally
Rollback(s, why) ==
  /\ bill' = IF tx[s].phase = "bills"
             THEN RolledBack("bills", bill, tx[s].writes, clock) ELSE bill
  /\ receipt' = IF tx[s].phase = "receipts"
                THEN RolledBack("receipts", receipt, tx[s].writes, clock) ELSE receipt
  /\ tx' = [tx EXCEPT ![s] = NoTx]
  /\ cyc' = [cyc EXCEPT ![s] = "finally"]
  /\ outcome' = [outcome EXCEPT ![s] =
       [result |-> why, phase |-> tx[s].phase, discarded |-> Len(tx[s].writes)]]

\* one turn of the upsert loop: INSERT .. ON CONFLICT DO UPDATE for the next
\* fetched record inside the transaction; a NOT NULL violation throws
UpsertRow(s) ==
  /\ tx[s].phase # "none"
  /\ tx[s].todo # <<>>
  /\ LET row == Params(s, tx[s].phase, Head(tx[s].todo)) IN
       IF StoreAccepts(tx[s].phase, row)
       THEN /\ tx' = [tx EXCEPT ![s].todo = Tail(tx[s].todo),
                                ![s].writes = Append(tx[s].writes, row)]
            /\ UNCHANGED <<storeVars, cyc, outcome>>
       ELSE Rollback(s, "rejected record")
  /\ UNCHANGED <<releaseVars, readVars, poolVars, cashierVars, otpVars, upBills, upReceipts,
                 isRunning, pass, clock, cycles, mappings, done, connection, via, counts, probeVars, tillVars, gateVars>>

\* a statement of the open transaction fails in the store (connection lost,
\* deadlock, disk): ROLLBACK, throw
StoreFails(s) ==
  /\ tx[s].phase # "none"
  /\ Rollback(s, "store error")
  /\ UNCHANGED <<releaseVars, readVars, poolVars, cashierVars, otpVars, upBills, upReceipts,
                 isRunning, pass, clock, cycles, mappings, done, connection, via, counts, probeVars, tillVars, gateVars>>

\* COMMIT after the last record: the upserts of the phase become visible
CommitPhase(s) ==
  /\ tx[s].phase # "none"
  /\ tx[s].todo = <<>>
  /\ clock' = clock + 1
  /\ bill' = IF tx[s].phase = "bills"
             THEN Applied("bills", bill, tx[s].writes, clock') ELSE bill
  /\ receipt' = IF tx[s].phase = "receipts"
                THEN Applied("receipts", receipt, tx[s].writes, clock') ELSE receipt
  /\ tx' = [tx EXCEPT ![s] = NoTx]
  /\ cyc' = AfterPhase(s, tx[s].phase)
  /\ pass' = PassAfterPhase(s, tx[s].phase)
  /\ outcome' = [outcome EXCEPT ![s] =
       [result |-> "committed", phase |-> tx[s].phase, discarded |-> 0]]
  /\ counts' = [counts EXCEPT ![s][tx[s].phase] = Len(tx[s].writes)]
  /\ UNCHANGED <<releaseVars, readVars, poolVars, cashierVars, otpVars, upBills, upReceipts,
                 isRunning, cycles, mappings, done, connection, via, probeVars, tillVars, gateVars>>

\* connection.close() on a connection that an earlier cycle closed, or that
\* broke under a fetch, may reject; on one just opened it resolves
CloseMayReject(s) == s = "etl" /\ connection \in {"closed", "broken"}

\* the finally block: TallyODBCService and TallyXMLETL reset isRunning;
\* TallyETL awaits disconnect() first and resets isRunning after it
Finally(s) ==
  /\ cyc[s] = "finally"
  /\ \/ /\ isRunning' = [isRunning EXCEPT ![s] = FALSE]
        /\ cyc' = [cyc EXCEPT ![s] = "idle"]
        /\ connection' = IF s = "etl" /\ connection # "none" THEN "closed" ELSE connection
        /\ UNCHANGED outcome
     \/ /\ CloseMayReject(s)      \* disconnect() throws out of the finally block
        /\ cyc' = [cyc EXCEPT ![s] = "rejected"]
        /\ outcome' = [outcome EXCEPT ![s].result = "raised"]
        /\ UNCHANGED <<isRunning, connection>>
  /\ counts' = [counts EXCEPT ![s] = NoCounts]
  /\ UNCHANGED <<storeVars, releaseVars, readVars, poolVars, cashierVars, otpVars, upBills,
                 upReceipts, pass, clock, cycles, mappings, done, tx, via, probeVars, tillVars,
                 gateVars>>

(***************************************************************************)
(* Cashier desk (the cashier routes): sessions and payment hints           *)
(***************************************************************************)
IdleSess == [pc |-> "idle", cashier |-> Null, start_float |-> 0, result |-> Null]

\* start_float of the open-session form
StartFloats == {1000}

\* SELECT id FROM cashier_session WHERE cashier_id = $1 AND status = 'ACTIVE'
ActiveSessions(c) ==
  {x \in cashier_session : x.cashier_id = c /\ x.status = "ACTIVE"}

\* a cashier sends POST /api/cashier/session/open
OpenSessionSubmit(q, c) ==
  /\ sess[q].pc = "idle"
  /\ opens < MaxOpens
  /\ opens' = opens + 1
  /\ \E f \in StartFloats :
       sess' = [sess EXCEPT ![q] = [pc |-> "existingSession", cashier |-> c,
                                    start_float |-> f, result |-> Null]]
  /\ UNCHANGED <<storeVars, releaseVars, syncVars, readVars, poolVars, otpVars, ingestVars, cashier_session,
                 payment_hint, hints, tillVars, gateVars>>

\* the handler up to its second await: the query for an ACTIVE session of the
\* cashier and the test of its result
OpenSessionExisting(q) ==
  /\ sess[q].pc = "existingSession"
  /\ IF ActiveSessions(sess[q].cashier) # {}
     THEN sess' = [sess EXCEPT ![q].pc = "done",
                               ![q].result = "400 Active session already exists"]
     ELSE sess' = [sess EXCEPT ![q].pc = "insert"]
  /\ UNCHANGED <<storeVars, releaseVars, syncVars, readVars, poolVars, otpVars, ingestVars, cashier_session, opens,
                 payment_hint, hints, tillVars, gateVars>>

\* the rest of the handler: the managers query, then INSERT INTO cashier_session
\* (.., status) VALUES (.., 'ACTIVE'); the generated id is modelled by the
\* position of the row in the order of the inserts, which is also the order of
\* start_ts
OpenSessionInsert(q) ==
  /\ sess[q].pc = "insert"
  /\ IF ActiveManagers = {}
     THEN /\ sess' = [sess EXCEPT ![q].pc = "done",
                        ![q].result = "400 No manager available for session approval"]
          /\ UNCHANGED cashier_session
     ELSE /\ cashier_session' = cashier_session \cup
               {[id |-> Cardinality(cashier_session) + 1,
                 cashier_id |-> sess[q].cashier, status |-> "ACTIVE",
                 start_float |-> sess[q].start_float, closed_hints |-> NullNumber,
                 counted_cash |-> NullNumber, expected_cash |-> NullNumber,
                 variance |-> NullNumber]}
          /\ sess' = [sess EXCEPT ![q].pc = "done", ![q].result = "200 session opened"]
  /\ UNCHANGED <<storeVars, releaseVars, syncVars, readVars, poolVars, otpVars, ingestVars, opens, payment_hint, hints, tillVars, gateVars>>

\* the response has been sent; the slot serves the next request
OpenSessionRespond(q) ==
  /\ sess[q].pc = "done"
  /\ sess' = [sess EXCEPT ![q] = IdleSess]
  /\ UNCHANGED <<storeVars, releaseVars, syncVars, readVars, poolVars, otpVars, ingestVars, cashier_session, opens,
                 payment_hint, hints, tillVars, gateVars>>

\* ph.created_at BETWEEN cs.start_ts AND COALESCE(cs.end_ts, CURRENT_TIMESTAMP):
\* the hint was recorded after session x was opened and, when x is closed,
\* before it was closed.  Times are kept as ordinals: a hint knows how many
\* sessions existed when it was recorded, a closed session how many hint
\* requests had been received when it was closed
InWindow(ph, x) ==
  /\ ph.created_after >= x.id
  /\ x.status = "ACTIVE" \/ ph.n <= x.closed_hints

\* a faulty check: finds no unreleased paid bill
UnreleasedPaidNone(x) == {}

\* validateSessionClose: the hints of the session's cashier recorded since the
\* session started whose bill is PAID and has no release record
UnreleasedPaid(x) ==
  {ph \in payment_hint :
     /\ ph.cashier_id = x.cashier_id
     /\ ph.created_after >= x.id
     /\ ph.bill_no \in DOMAIN bill
     /\ bill_status(ph.bill_no).status = "PAID"
     /\ ReleasesOfBill(ph.bill_no) = {}}

\* SUM(amount) over a set of rows
RECURSIVE SumRows(_)
SumRows(S) ==
  IF S = {} THEN 0
  ELSE LET x == CHOOSE y \in S : TRUE IN x.amount + SumRows(S \ {x})

\* Math.abs
Abs(n) == IF n < 0 THEN 0 - n ELSE n

\* the settings of plpgsql.variable_conflict; error is the default
ConflictSettings == {"error", "use_variable", "use_column"}

\* the rows a query of calculate_expected_cash(session_id) selects with
\* WHERE session_id = session_id: the name is both the function's parameter
\* and the column, so under use_variable and under use_column the two sides
\* are the same thing and every row (no session_id is NULL) is selected;
\* under error the statement raises "column reference is ambiguous"
SelectedBySessionId(table, id) == table

\* calculate_expected_cash(session_id) where it returns a value:
\* start_float + cash_in - petty_out + adjustments
calculate_expected_cash(x) ==
  LET cash_in == SumRows({[n |-> ph.n, amount |-> ph.cash_amt] :
                   ph \in {h \in payment_hint :
                             h.cashier_id = x.cashier_id /\ InWindow(h, x)}})
      petty_out == SumRows(SelectedBySessionId(petty_cash, x.id))
      adjustments ==
        SumRows({[n |-> a.n,
                  amount |-> IF a.type = "ADD_TO_TILL" THEN a.amount ELSE 0 - a.amount] :
                   a \in SelectedBySessionId(till_adjustment, x.id)})
  IN x.start_float + cash_in - petty_out + adjustments

\* parseFloat(process.env.CASH_VARIANCE_THRESHOLD || '100')
VarianceThreshold == 100

\* counted_cash of the close form
CountedCash == {1050, 1500}

NoTillResp ==
  [route |-> "none", subject |-> Null, result |-> Null, expected_cash |-> 0,
   variance |-> 0, requiresApproval |-> FALSE, remaining_due |-> 0]
Answer(route, subject, result) ==
  [NoTillResp EXCEPT !.route = route, !.subject = subject, !.result = result]

\* ORDER BY start_ts DESC LIMIT 1 over the ACTIVE sessions of cashier c
LatestActive(c) ==
  CHOOSE x \in ActiveSessions(c) : \A y \in ActiveSessions(c) : y.id <= x.id

\* POST /api/cashier/session/:session_id/close {counted_cash}:
\* validateSessionClose (the session exists, is ACTIVE and leaves no paid bill
\* unreleased), validateCashVariance (the expected cash; variance, expected
\* cash and the approval flag are put on the request only when the variance
\* exceeds the threshold), then UPDATE cashier_session SET end_ts, counted_cash,
\* expected_cash = req.expectedCash || 0, variance = req.variance || 0,
\* status = 'CLOSED' WHERE id = $6 and the response
CloseSession(id, counted_cash) ==
  /\ LET rows == {x \in cashier_session : x.id = id} IN
       IF rows = {}
       THEN /\ tillResp' = Answer("close", id, "404 Session not found")
            /\ UNCHANGED cashier_session
       ELSE LET x == CHOOSE y \in rows : TRUE IN
         IF x.status # "ACTIVE"
         THEN /\ tillResp' = Answer("close", id, "400 Session already closed")
              /\ UNCHANGED cashier_session
         ELSE IF UnreleasedPaid(x) # {}
         THEN /\ tillResp' = Answer("close", id,
                                    "400 Cannot close session with unreleased paid bills")
              /\ UNCHANGED cashier_session
         ELSE IF variable_conflict = "error"
         THEN /\ tillResp' = Answer("close", id, "500 Variance validation failed")
              /\ UNCHANGED cashier_session
         ELSE LET expected == calculate_expected_cash(x)
                  variance == counted_cash - expected
                  requiresApproval == Abs(variance) > VarianceThreshold
                  reqVariance == IF requiresApproval THEN variance ELSE 0
                  reqExpectedCash == IF requiresApproval THEN expected ELSE 0
              IN /\ cashier_session' = (cashier_session \ {x}) \cup
                      {[x EXCEPT !.status = "CLOSED", !.closed_hints = hints,
                                 !.counted_cash = counted_cash,
                                 !.expected_cash = reqExpectedCash,
                                 !.variance = reqVariance]}
                 /\ tillResp' = [Answer("close", id, "200 Session closed successfully")
                                   EXCEPT !.expected_cash = reqExpectedCash,
                                          !.variance = reqVariance,
                                          !.requiresApproval = requiresApproval]
  /\ UNCHANGED <<storeVars, releaseVars, syncVars, readVars, poolVars, otpVars, ingestVars, sess, opens,
                 payment_hint, hints, variable_conflict, petty_cash, till_adjustment,
                 entries, cheque_register, digital_payment_ref, gateVars>>

\* The close route step by step, one step per query, for requests in flight
\* together.  The slot of a close request in sess holds the session id, the
\* counted cash, the row validateSessionClose read (req.sessionData) and what
\* validateCashVariance put on the request.
\* a cashier sends POST /api/cashier/session/:session_id/close {counted_cash}
CloseSubmit(q, id, counted_cash) ==
  /\ sess[q].pc = "idle"
  /\ sess' = [sess EXCEPT ![q] =
                [pc |-> "validateSessionClose", session_id |-> id,
                 counted_cash |-> counted_cash, sessionData |-> Null,
                 expectedCash |-> 0, variance |-> 0, requiresApproval |-> FALSE,
                 result |-> Null]]
  /\ UNCHANGED <<storeVars, releaseVars, syncVars, readVars, poolVars, otpVars, ingestVars,
                 cashier_session, opens, payment_hint, hints, tillVars, gateVars>>

\* validateSessionClose, first query: SELECT * FROM cashier_session WHERE id = $1
\* and the tests of its result
ValidateSessionCloseStatus(q) ==
  /\ sess[q].pc = "validateSessionClose"
  /\ LET rows == {x \in cashier_session : x.id = sess[q].session_id} IN
       IF rows = {}
       THEN sess' = [sess EXCEPT ![q].pc = "done", ![q].result = "404 Session not found"]
       ELSE LET x == CHOOSE y \in rows : TRUE IN
         IF x.status # "ACTIVE"
         THEN sess' = [sess EXCEPT ![q].pc = "done",
                                   ![q].result = "400 Session already closed"]
         ELSE sess' = [sess EXCEPT ![q].pc = "unreleasedPaid", ![q].sessionData = x]
  /\ UNCHANGED <<storeVars, releaseVars, syncVars, readVars, poolVars, otpVars, ingestVars,
                 cashier_session, opens, payment_hint, hints, tillVars, gateVars>>

\* validateSessionClose, second query: the unreleased paid bills of the
\* cashier since session.rows[0].start_ts
ValidateSessionCloseUnreleased(q) ==
  /\ sess[q].pc = "unreleasedPaid"
  /\ IF UnreleasedPaid(sess[q].sessionData) # {}
     THEN sess' = [sess EXCEPT ![q].pc = "done",
                     ![q].result = "400 Cannot close session with unreleased paid bills"]
     ELSE sess' = [sess EXCEPT ![q].pc = "validateCashVariance"]
  /\ UNCHANGED <<storeVars, releaseVars, syncVars, readVars, poolVars, otpVars, ingestVars,
                 cashier_session, opens, payment_hint, hints, tillVars, gateVars>>

\* validateCashVariance: SELECT calculate_expected_cash($1) over the row of the
\* session as it is now; variance, expected cash and the approval flag are put
\* on the request only when the variance exceeds the threshold
ValidateCashVariance(q) ==
  /\ sess[q].pc = "validateCashVariance"
  /\ IF variable_conflict = "error"
     THEN sess' = [sess EXCEPT ![q].pc = "done",
                               ![q].result = "500 Variance validation failed"]
     ELSE LET x == CHOOSE y \in cashier_session : y.id = sess[q].session_id
              expected == calculate_expected_cash(x)
              variance == sess[q].counted_cash - expected
              requiresApproval == Abs(variance) > VarianceThreshold
          IN sess' = [sess EXCEPT ![q].pc = "closeUpdate",
                        ![q].requiresApproval = requiresApproval,
                        ![q].variance = IF requiresApproval THEN variance ELSE 0,
                        ![q].expectedCash = IF requiresApproval THEN expected ELSE 0]
  /\ UNCHANGED <<storeVars, releaseVars, syncVars, readVars, poolVars, otpVars, ingestVars,
                 cashier_session, opens, payment_hint, hints, tillVars, gateVars>>

\* the rows of the close UPDATE: .. WHERE id = $6
ClosableRows(id) == {x \in cashier_session : x.id = id}

\* the route handler: UPDATE cashier_session SET end_ts = CURRENT_TIMESTAMP,
\* counted_cash = $1, expected_cash = $2, variance = $3, closed_by = $4,
\* status = 'CLOSED' WHERE id = $6 RETURNING *, then the response
CloseUpdate(q) ==
  /\ sess[q].pc = "closeUpdate"
  /\ cashier_session' =
       (cashier_session \ ClosableRows(sess[q].session_id)) \cup
         {[x EXCEPT !.status = "CLOSED", !.closed_hints = hints,
                    !.counted_cash = sess[q].counted_cash,
                    !.expected_cash = sess[q].expectedCash,
                    !.variance = sess[q].variance] :
            x \in ClosableRows(sess[q].session_id)}
  /\ sess' = [sess EXCEPT ![q].pc = "done",
                          ![q].result = "200 Session closed successfully"]
  /\ UNCHANGED <<storeVars, releaseVars, syncVars, readVars, poolVars, otpVars, ingestVars,
                 opens, payment_hint, hints, tillVars, gateVars>>

\* GET /api/cashier/session/current: the latest ACTIVE session of the cashier
\* with calculate_expected_cash(cs.id) as expected_cash
GetCurrentSession(c) ==
  /\ IF ActiveSessions(c) = {}
     THEN tillResp' = Answer("current", c, "404 No active session found")
     ELSE IF variable_conflict = "error"
     THEN tillResp' = Answer("current", c, "500 Failed to get current session")
     ELSE tillResp' = [Answer("current", LatestActive(c).id, "200")
                         EXCEPT !.expected_cash = calculate_expected_cash(LatestActive(c))]
  /\ UNCHANGED <<storeVars, releaseVars, syncVars, readVars, poolVars, cashierVars, otpVars,
                 ingestVars, variable_conflict, petty_cash, till_adjustment, entries,
                 cheque_register, digital_payment_ref, gateVars>>

\* POST /api/cashier/session/petty-cash {amount, ..}: requireActiveSession,
\* then INSERT INTO petty_cash (session_id, amount, ..) for req.activeSessionId
PettyCash(c, amount) ==
  /\ entries < MaxEntries
  /\ entries' = entries + 1
  /\ IF ActiveSessions(c) = {}
     THEN UNCHANGED petty_cash                      \* 400 No active cashier session
     ELSE petty_cash' = petty_cash \cup
            {[n |-> entries', session_id |-> LatestActive(c).id, amount |-> amount]}
  /\ UNCHANGED <<storeVars, releaseVars, syncVars, readVars, poolVars, cashierVars, otpVars,
                 ingestVars, variable_conflict, till_adjustment, cheque_register,
                 digital_payment_ref, tillResp, gateVars>>

AdjustmentTypes == {"ADD_TO_TILL", "REMOVE_FROM_TILL"}

\* POST /api/cashier/session/till-adjust {type, amount, reason}:
\* requireActiveSession, then INSERT INTO till_adjustment (session_id, type,
\* amount, reason) for req.activeSessionId
TillAdjust(c, type, amount) ==
  /\ entries < MaxEntries
  /\ entries' = entries + 1
  /\ IF ActiveSessions(c) = {}
     THEN UNCHANGED till_adjustment                 \* 400 No active cashier session
     ELSE till_adjustment' = till_adjustment \cup
            {[n |-> entries', session_id |-> LatestActive(c).id, type |-> type,
              amount |-> amount]}
  /\ UNCHANGED <<storeVars, releaseVars, syncVars, readVars, poolVars, cashierVars, otpVars,
                 ingestVars, variable_conflict, petty_cash, cheque_register,
                 digital_payment_ref, tillResp, gateVars>>

\* the amounts a cashier enters in a payment form
PaidAmounts == {500 * k : k \in 0..MaxAmount}

\* a faulty remaining due: the cash amount only is deducted
RemainingDueCashOnly(billAmount, cash_amt, cheque_amt, digital_amt) ==
  billAmount - cash_amt

\* totalPaid = cash_amt + cheque_amt + digital_amt;
\* remainingDue = billAmount - totalPaid
RemainingDue(billAmount, cash_amt, cheque_amt, digital_amt) ==
  billAmount - (cash_amt + cheque_amt + digital_amt)

\* POST /api/cashier/payment-hint {bill_no, cash_amt, cheque_amt, digital_amt}
\* (cheque_no and digital_ref are filled in when their amount is positive):
\* requireActiveSession, the bill's amount, INSERT INTO payment_hint with
\* remaining_due = amount - (cash_amt + cheque_amt + digital_amt), then the
\* cheque_register and digital_payment_ref rows
PaymentHint(c, b, cash_amt, cheque_amt, digital_amt) ==
  /\ hints < MaxHints
  /\ hints' = hints + 1
  /\ IF ActiveSessions(c) = {}
     THEN /\ tillResp' = Answer("payment-hint", c, "400 No active cashier session")
          /\ UNCHANGED <<payment_hint, cheque_register, digital_payment_ref>>
     ELSE IF b \notin DOMAIN bill
     THEN /\ tillResp' = Answer("payment-hint", c, "404 Bill not found")
          /\ UNCHANGED <<payment_hint, cheque_register, digital_payment_ref>>
     ELSE LET remainingDue == RemainingDue(bill[b].amount, cash_amt, cheque_amt,
                                           digital_amt) IN
          /\ payment_hint' = payment_hint \cup
               {[n |-> hints', bill_no |-> b, cashier_id |-> c,
                 cash_amt |-> cash_amt, cheque_amt |-> cheque_amt,
                 digital_amt |-> digital_amt, remaining_due |-> remainingDue,
                 created_after |-> Cardinality(cashier_session)]}
          /\ cheque_register' = IF cheque_amt > 0
               THEN cheque_register \cup {[n |-> hints', bill_no |-> b, amount |-> cheque_amt]}
               ELSE cheque_register
          /\ digital_payment_ref' = IF digital_amt > 0
               THEN digital_payment_ref \cup
                      {[n |-> hints', bill_no |-> b, amount |-> digital_amt]}
               ELSE digital_payment_ref
          /\ tillResp' = [Answer("payment-hint", c, "200 Payment form saved successfully")
                            EXCEPT !.remaining_due = remainingDue]
  /\ UNCHANGED <<storeVars, releaseVars, syncVars, readVars, poolVars, otpVars, ingestVars,
                 cashier_session, sess, opens, variable_conflict, petty_cash,
                 till_adjustment, entries, gateVars>>

\* no petty cash, no adjustment, no cheque or digital reference, no response
TillEmpty ==
  /\ petty_cash = {}
  /\ till_adjustment = {}
  /\ entries = 0
  /\ cheque_register = {}
  /\ digital_payment_ref = {}
  /\ tillResp = NoTillResp

\* the same in a store with the default setting
TillAtRest == TillEmpty /\ variable_conflict = "error"

(***************************************************************************)
(* VIEW release_status and POST /transport/:bill_no/pod                    *)
(***************************************************************************)
\* CASE of the view over bill b LEFT JOIN release_self LEFT JOIN release_transporter
release_status(b) ==
  IF \E rs \in release_self : rs.bill_no = b THEN "RELEASED_SELF"
  ELSE IF \E rt \in release_transporter : rt.bill_no = b /\ rt.delivered THEN "DELIVERED"
  ELSE IF \E rt \in release_transporter : rt.bill_no = b THEN "IN_TRANSIT"
  ELSE "READY"

\* a faulty UPDATE: the transporter release of the bill is removed
MarkDeliveredRemoves(b) == {rt \in release_transporter : rt.bill_no # b}

\* UPDATE release_transporter SET pod_uploaded = true, pod_path = $1,
\* delivered_ts = CURRENT_TIMESTAMP WHERE bill_no = $2
MarkDelivered(b) ==
  {IF rt.bill_no = b THEN [rt EXCEPT !.delivered = TRUE] ELSE rt : rt \in release_transporter}

NoPodResp == [bill_no |-> Null, result |-> Null]

\* POST /api/dispatch/transport/:bill_no/pod with or without the file
ConfirmDelivery(b, file) ==
  /\ IF ~file
     THEN /\ podResp' = [bill_no |-> b, result |-> "400 POD file required"]
          /\ UNCHANGED release_transporter
     ELSE IF ~\E rt \in release_transporter : rt.bill_no = b
     THEN /\ podResp' = [bill_no |-> b, result |-> "404 Transport release not found"]
          /\ UNCHANGED release_transporter
     ELSE /\ podResp' = [bill_no |-> b, result |-> "200 POD uploaded"]
          /\ release_transporter' = MarkDelivered(b)
  /\ UNCHANGED <<storeVars, syncVars, readVars, poolVars, cashierVars, otpVars, ingestVars, tillVars,
                 release_self, rowLock, req, submitted, gate_log, gate, gates>>

(***************************************************************************)
(* Gate log: POST /api/gate/log                                            *)
(***************************************************************************)
IdleGate == [pc |-> "idle", gatepass_id |-> Null, bill_no |-> Null, result |-> Null]

\* a guard sends POST /log {gatepass_id}
GateSubmit(q, g) ==
  /\ gate[q].pc = "idle"
  /\ gates < MaxGates
  /\ gates' = gates + 1
  /\ gate' = [gate EXCEPT ![q] = [pc |-> "releaseCheck", gatepass_id |-> g,
                                  bill_no |-> Null, result |-> Null]]
  /\ UNCHANGED <<storeVars, releaseVars, syncVars, readVars, poolVars, cashierVars, otpVars,
                 ingestVars, tillVars, gate_log, podResp>>

\* "Validate gatepass_id exists in releases": the UNION ALL query and its test
GateReleaseCheck(q) ==
  /\ gate[q].pc = "releaseCheck"
  /\ IF ReleasesOfGatepass(gate[q].gatepass_id) = {}
     THEN gate' = [gate EXCEPT ![q].pc = "done",
                               ![q].result = "404 Invalid gatepass ID - no release found"]
     ELSE \E r \in ReleasesOfGatepass(gate[q].gatepass_id) :     \* rows[0]
            gate' = [gate EXCEPT ![q].pc = "existingLog", ![q].bill_no = r.bill_no]
  /\ UNCHANGED <<storeVars, releaseVars, syncVars, readVars, poolVars, cashierVars, otpVars,
                 ingestVars, tillVars, gate_log, gates, podResp>>

\* "Check if gate log already exists for this gatepass"
GateExistingLog(q) ==
  /\ gate[q].pc = "existingLog"
  /\ IF \E gl \in gate_log : gl.gatepass_id = gate[q].gatepass_id
     THEN gate' = [gate EXCEPT ![q].pc = "done",
                     ![q].result = "400 Gate log already exists for this gatepass"]
     ELSE gate' = [gate EXCEPT ![q].pc = "insert"]
  /\ UNCHANGED <<storeVars, releaseVars, syncVars, readVars, poolVars, cashierVars, otpVars,
                 ingestVars, tillVars, gate_log, gates, podResp>>

\* INSERT INTO gate_log (bill_no, gatepass_id, vehicle_no, security_id); the
\* table has no constraint on gatepass_id
GateInsert(q) ==
  /\ gate[q].pc = "insert"
  /\ gate_log' = gate_log \cup
       {[id |-> Cardinality(gate_log) + 1, bill_no |-> gate[q].bill_no,
         gatepass_id |-> gate[q].gatepass_id]}
  /\ gate' = [gate EXCEPT ![q].pc = "done",
                          ![q].result = "200 Gate log entry created successfully"]
  /\ UNCHANGED <<storeVars, releaseVars, syncVars, readVars, poolVars, cashierVars, otpVars,
                 ingestVars, tillVars, gates, podResp>>

\* the response has been sent; the slot serves the next request
GateRespond(q) ==
  /\ gate[q].pc = "done"
  /\ gate' = [gate EXCEPT ![q] = IdleGate]
  /\ UNCHANGED <<storeVars, releaseVars, syncVars, readVars, poolVars, cashierVars, otpVars,
                 ingestVars, tillVars, gate_log, gates, podResp>>

\* no gate log, no gate request in flight, no delivery confirmation answered
GateAtRest ==
  /\ gate_log = {}
  /\ gate = [q \in Reqs |-> IdleGate]
  /\ gates = 0
  /\ podResp = NoPodResp

\* no session, no request of a cashier in flight, no payment hint
CashierAtRest ==
  /\ cashier_session = {}
  /\ sess = [q \in Reqs |-> IdleSess]
  /\ opens = 0
  /\ payment_hint = {}
  /\ hints = 0


(***************************************************************************)
(* OTPService (services/otp.js) behind POST /otp/request and /otp/verify   *)
(***************************************************************************)
OtpCodes == {"111111", "222222"}

\* createOTP(billNo, phone): DELETE FROM customer_otp WHERE bill_no = $1, then
\* INSERT a fresh unverified row (bill_no REFERENCES bill)
CreateOTP(b, code) ==
  /\ b \in DOMAIN bill
  /\ otps < MaxOtps
  /\ otps' = otps + 1
  /\ customer_otp' = {x \in customer_otp : x.bill_no # b} \cup
       {[bill_no |-> b, otp_code |-> code, verified |-> FALSE, expired |-> FALSE]}
  /\ UNCHANGED <<storeVars, releaseVars, syncVars, readVars, poolVars, cashierVars, ingestVars, otpLog, tillVars, gateVars>>

\* the validity period of the OTPs of bill b runs out: new Date() > expires_at
ExpireOTP(b) ==
  /\ \E x \in customer_otp : x.bill_no = b /\ ~x.expired
  /\ customer_otp' = {IF x.bill_no = b THEN [x EXCEPT !.expired = TRUE] ELSE x :
                        x \in customer_otp}
  /\ UNCHANGED <<storeVars, releaseVars, syncVars, readVars, poolVars, cashierVars, ingestVars, otpLog, otps, tillVars, gateVars>>

\* verifyOTP(billNo, otpCode): the row of that bill and code; invalid, already
\* used and expired answers change nothing; otherwise UPDATE .. SET verified =
\* true and the answer valid: true
VerifyOTP(b, code) ==
  /\ \E x \in customer_otp :
       /\ x.bill_no = b /\ x.otp_code = code
       /\ ~x.verified /\ ~x.expired
       /\ customer_otp' = (customer_otp \ {x}) \cup {[x EXCEPT !.verified = TRUE]}
  /\ otpLog' = otpLog \cup {b}
  /\ UNCHANGED <<storeVars, releaseVars, syncVars, readVars, poolVars, cashierVars, ingestVars, otps, tillVars, gateVars>>

\* no OTP created, none verified
OtpAtRest ==
  /\ customer_otp = {}
  /\ otpLog = {}
  /\ otps = 0

\* no cycle has run: no transaction open, no connection made
IngestAtRest ==
  /\ tx = [s \in Services |-> NoTx]
  /\ connection = "none"
  /\ outcome = [s \in Services |-> NoOutcome]
  /\ via = [s \in Services |-> s]
  /\ counts = [s \in Services |-> NoCounts]
  /\ connectionMethod = "odbc"
  /\ probeResp = NoProbe
  /\ probes = 0

\* no release request in flight, no release recorded
ReleaseAtRest ==
  /\ release_self = {}
  /\ release_transporter = {}
  /\ rowLock = [b \in BillNos |-> Null]
  /\ req = [q \in Reqs |-> IdleReq]
  /\ submitted = 0

(***************************************************************************)
(* Specification of ingestion and mapping: the accounting system holds a   *)
(* fixed set of vouchers, the store starts empty                           *)
(***************************************************************************)
InitSync ==
  /\ bill = [b \in {} |-> Null]
  /\ receipt = [r \in {} |-> Null]
  /\ ReleaseAtRest
  /\ \E d2 \in Dates, p2 \in Parties, a2 \in Amounts :
       upBills = [b \in BillNos |->
         IF b = "B1" THEN [bill_date |-> 1, party_name |-> "P1", amount |-> 500]
         ELSE [bill_date |-> d2, party_name |-> p2, amount |-> a2]]
  /\ \E a1 \in Amounts, n1 \in Narrations :
       upReceipts = [r \in ReceiptIds |->
         IF r = "R1"
         THEN [receipt_date |-> MaxDate, party_name |-> "P1", amount |-> a1,
               narration |-> n1]
         ELSE [receipt_date |-> 1, party_name |-> "P1", amount |-> 500,
               narration |-> "cash"]]
  /\ isRunning = [s \in Services |-> FALSE]
  /\ cyc = [s \in Services |-> "idle"]
  /\ pass = [p \in Passes |-> IdlePass]
  /\ clock = 0
  /\ cycles = 0
  /\ mappings = 0
  /\ done = <<>>
  /\ lastRead = {}
  /\ clients = NoClients
  /\ CashierAtRest
  /\ OtpAtRest
  /\ IngestAtRest
  /\ TillAtRest
  /\ GateAtRest

NextSync ==
  \/ \E path \in InvocationPaths : Trigger(path)
  \/ \E s \in Services :
       \/ SyncBills(s)
       \/ SyncReceipts(s)
       \/ EndCycle(s)
  \/ AutoMapRequest
  \/ \E p \in Passes :
       \/ PassSelect(p)
       \/ PassCandidate(p)
       \/ PassUpdate(p)
  \/ \E r \in ReceiptIds, b \in BillNos : MapReceipt(r, b)

SpecSync == InitSync /\ [][NextSync]_vars

(***************************************************************************)
(* Specification of the cycles over receipt vouchers whose narrations      *)
(* carry a bill reference in the forms the accounting clerks use; one      *)
(* invocation path per service                                             *)
(***************************************************************************)
InitReference ==
  /\ bill = [b \in {} |-> Null]
  /\ receipt = [r \in {} |-> Null]
  /\ ReleaseAtRest
  /\ \E d2 \in Dates :
       upBills = [b \in BillNos |->
         IF b = "B1" THEN [bill_date |-> 1, party_name |-> "P1", amount |-> 500]
         ELSE [bill_date |-> d2, party_name |-> "P1", amount |-> 500]]
  /\ \E n1 \in NarrationTexts :
       upReceipts = [r \in ReceiptIds |->
         IF r = "R1"
         THEN [receipt_date |-> MaxDate, party_name |-> "P1", amount |-> 500,
               narration |-> n1]
         ELSE [receipt_date |-> 1, party_name |-> "P1", amount |-> 500,
               narration |-> "cash"]]
  /\ isRunning = [s \in Services |-> FALSE]
  /\ cyc = [s \in Services |-> "idle"]
  /\ pass = [p \in Passes |-> IdlePass]
  /\ clock = 0
  /\ cycles = 0
  /\ mappings = 0
  /\ done = <<>>
  /\ lastRead = {}
  /\ clients = NoClients
  /\ CashierAtRest
  /\ OtpAtRest
  /\ IngestAtRest
  /\ TillAtRest
  /\ GateAtRest

NextReference ==
  \/ \E path \in {"timer", "admin", "script"} : Trigger(path)
  \/ \E s \in Services :
       \/ SyncBills(s)
       \/ SyncReceipts(s)
       \/ PassSelect(s)
       \/ PassCandidate(s)
       \/ PassUpdate(s)
       \/ EndCycle(s)

SpecReference == InitReference /\ [][NextReference]_vars

(***************************************************************************)
(* Specification of the mapping operations over a store that earlier       *)
(* cycles and mapping requests have filled: manual mapping and the         *)
(* on-demand auto-mapping pass, no cycle running                           *)
(***************************************************************************)
InitMapping ==
  /\ \E a1 \in Amounts, d2 \in Dates, p2 \in Parties, a2 \in Amounts :
       bill = [b \in BillNos |->
         IF b = "B1"
         THEN [bill_date |-> 1, party_name |-> "P1", amount |-> a1, last_sync_ts |-> 0]
         ELSE [bill_date |-> d2, party_name |-> p2, amount |-> a2, last_sync_ts |-> 0]]
  /\ \E a \in [ReceiptIds -> Amounts], ref \in [ReceiptIds -> BillNos \cup {Null}] :
       receipt = [r \in ReceiptIds |->
         [receipt_date |-> MaxDate, party_name |-> "P1", amount |-> a[r],
          bill_reference |-> ref[r], last_sync_ts |-> 0]]
  /\ ReleaseAtRest
  /\ SyncAtRest
  /\ CashierAtRest
  /\ OtpAtRest
  /\ IngestAtRest
  /\ TillAtRest
  /\ GateAtRest

NextMapping ==
  \/ AutoMapRequest
  \/ PassSelect("ondemand")
  \/ PassCandidate("ondemand")
  \/ PassUpdate("ondemand")
  \/ \E r \in ReceiptIds, b \in BillNos : MapReceipt(r, b)
  \/ \E b \in BillNos : GetBill(b)

SpecMapping == InitMapping /\ [][NextMapping]_vars

(***************************************************************************)
(* Specification of the release pipeline over a store with two bills       *)
(***************************************************************************)
InitRelease ==
  /\ bill = [b \in BillNos |->
               [bill_date |-> 1, party_name |-> "P1", amount |-> 500,
                last_sync_ts |-> 0]]
  /\ \E ref \in {"B1", Null} :
       receipt = [r \in {"R1"} |->
                    [receipt_date |-> 1, party_name |-> "P1", amount |-> 500,
                     bill_reference |-> ref, last_sync_ts |-> 0]]
  /\ ReleaseAtRest
  /\ SyncAtRest
  /\ CashierAtRest
  /\ OtpAtRest
  /\ IngestAtRest
  /\ TillAtRest
  /\ GateAtRest

NextRelease ==
  \E q \in Reqs :
    \/ Submit(q)
    \/ ValidateReleaseStatus(q)
    \/ ValidateReleaseExisting(q)
    \/ ValidateGatepassId(q)
    \/ EnforceUniqueReleaseLock(q)
    \/ EnforceUniqueReleaseCheck(q)
    \/ ReleaseHandler(q)
    \/ Respond(q)

SpecRelease == InitRelease /\ [][NextRelease]_vars

(***************************************************************************)
(* Specification of the release pipeline with its failure exits (a         *)
(* rejected upload, a query that throws).  Fairness: the event loop runs   *)
(* every continuation whose awaited query has returned, and the store      *)
(* answers every query, so each step of a request in flight is eventually  *)
(* taken; nothing obliges a client to send a request or a fault to occur.  *)
(***************************************************************************)
PipelineStep(q) ==
  \/ ValidateReleaseStatus(q)
  \/ ValidateReleaseExisting(q)
  \/ ValidateGatepassId(q)
  \/ EnforceUniqueReleaseLock(q)
  \/ EnforceUniqueReleaseCheck(q)
  \/ ReleaseHandler(q)
  \/ Respond(q)

NextReleaseExits ==
  \E q \in Reqs :
    \/ Submit(q)
    \/ PipelineStep(q)
    \/ UploadFails(q)
    \/ HandlerQueryError(q)
    \/ LockQueryError(q)

SpecReleaseExits ==
  /\ InitRelease
  /\ [][NextReleaseExits]_vars
  /\ \A q \in Reqs : WF_vars(PipelineStep(q))

(***************************************************************************)
(* Specification of the dispatcher's counter: OTP requests and             *)
(* verifications next to release requests, one release request at a time   *)
(***************************************************************************)
NextCounter ==
  \/ Submit("q1")
  \/ PipelineStep("q1")
  \/ \E b \in BillNos, code \in OtpCodes :
       \/ CreateOTP(b, code)
       \/ VerifyOTP(b, code)
  \/ \E b \in BillNos : ExpireOTP(b)

SpecCounter == InitRelease /\ [][NextCounter]_vars

(***************************************************************************)
(* Specification of the cashier desk: open-session requests of two         *)
(* cashiers in flight together, session close and payment hints, over the  *)
(* store of the release pipeline                                           *)
(***************************************************************************)
SessionIds == 1..MaxOpens

InitSession ==
  /\ bill = [b \in BillNos |->
               [bill_date |-> 1, party_name |-> "P1", amount |-> 500,
                last_sync_ts |-> 0]]
  /\ \E ref \in {"B1", Null} :
       receipt = [r \in {"R1"} |->
                    [receipt_date |-> 1, party_name |-> "P1", amount |-> 500,
                     bill_reference |-> ref, last_sync_ts |-> 0]]
  /\ ReleaseAtRest
  /\ SyncAtRest
  /\ CashierAtRest
  /\ OtpAtRest
  /\ IngestAtRest
  /\ TillAtRest
  /\ GateAtRest

NextSession ==
  \/ \E q \in Reqs :
       \/ \E c \in Cashiers : OpenSessionSubmit(q, c)
       \/ OpenSessionExisting(q)
       \/ OpenSessionInsert(q)
       \/ OpenSessionRespond(q)
  \/ \E id \in SessionIds : CloseSession(id, 1000)
  \/ \E c \in Cashiers, b \in BillNos, cash_amt, cheque_amt, digital_amt \in PaidAmounts :
       PaymentHint(c, b, cash_amt, cheque_amt, digital_amt)

SpecSession == InitSession /\ [][NextSession]_vars

(***************************************************************************)
(* Specification of desk and counter together: a cashier opens and closes  *)
(* sessions and records payment hints while a dispatcher sends release     *)
(* requests, one at a time                                                 *)
(***************************************************************************)
\* the request bodies of the dispatcher at the desk: no approval, or the PIN
\* of the manager
DeskApprovals == {<<Null, FALSE>>, <<"PIN1", FALSE>>}

NextDesk ==
  \/ OpenSessionSubmit("q1", "U1")
  \/ OpenSessionExisting("q1")
  \/ OpenSessionInsert("q1")
  \/ OpenSessionRespond("q1")
  \/ \E id \in SessionIds : CloseSession(id, 1000)
  \/ \E b \in BillNos, cash_amt \in PaidAmounts, cheque_amt \in {0, 500} :
       PaymentHint("U1", b, cash_amt, cheque_amt, 0)
  \/ \E ps \in ParamShapes, b \in BillNos, a \in DeskApprovals :
       SubmitRequest("q1", ps, b, "G1", a, "self")
  \/ PipelineStep("q1")

SpecDesk == InitSession /\ [][NextDesk]_vars

(***************************************************************************)
(* Specification of the till: the cashiers open sessions one request at a  *)
(* time, record payment hints, petty cash and till adjustments, look at    *)
(* their current session and close it with a cash count                    *)
(***************************************************************************)
InitTill ==
  /\ bill = [b \in BillNos |->
               [bill_date |-> 1, party_name |-> "P1", amount |-> 500,
                last_sync_ts |-> 0]]
  /\ receipt = [r \in {} |-> Null]
  /\ ReleaseAtRest
  /\ SyncAtRest
  /\ CashierAtRest
  /\ OtpAtRest
  /\ IngestAtRest
  /\ TillEmpty
  /\ variable_conflict \in ConflictSettings
  /\ GateAtRest

\* the payment forms at the till: <<cash_amt, cheque_amt, digital_amt>>
TillForms == {<<500, 0, 0>>, <<0, 500, 500>>}

NextTill ==
  \/ \E c \in Cashiers : opens < MaxOpens - 1 /\ OpenSessionSubmit("q1", c)
  \/ OpenSessionExisting("q1")
  \/ OpenSessionInsert("q1")
  \/ OpenSessionRespond("q1")
  \/ \E id \in SessionIds, counted_cash \in CountedCash : CloseSession(id, counted_cash)
  \/ GetCurrentSession("U1")
  \/ \E c \in Cashiers : PettyCash(c, 500)
  \/ \E c \in Cashiers, type \in AdjustmentTypes : TillAdjust(c, type, 500)
  \/ \E c \in Cashiers, f \in TillForms : PaymentHint(c, "B1", f[1], f[2], f[3])

SpecTill == InitTill /\ [][NextTill]_vars

(***************************************************************************)
(* Specification of the gate: guards log the gatepasses of a store in      *)
(* which some bills have been released                                     *)
(***************************************************************************)
InitGate ==
  /\ bill = [b \in BillNos |->
               [bill_date |-> 1, party_name |-> "P1", amount |-> 500,
                last_sync_ts |-> 0]]
  /\ receipt = [r \in {} |-> Null]
  /\ release_self \in
       SUBSET {[bill_no |-> "B1", gatepass_id |-> "G1",
                approved_by_manager_id |-> Null, delivered |-> FALSE]}
  /\ release_transporter \in
       SUBSET {[bill_no |-> "B2", gatepass_id |-> "G2",
                approved_by_manager_id |-> Null, delivered |-> FALSE]}
  /\ rowLock = [b \in BillNos |-> Null]
  /\ req = [q \in Reqs |-> IdleReq]
  /\ submitted = 0
  /\ SyncAtRest
  /\ CashierAtRest
  /\ OtpAtRest
  /\ IngestAtRest
  /\ TillAtRest
  /\ GateAtRest

NextGate ==
  \E q \in Reqs :
    \/ \E g \in Gatepasses : GateSubmit(q, g)
    \/ GateReleaseCheck(q)
    \/ GateExistingLog(q)
    \/ GateInsert(q)
    \/ GateRespond(q)

SpecGate == InitGate /\ [][NextGate]_vars

(***************************************************************************)
(* Specification of release and delivery: dispatchers send release         *)
(* requests and delivery confirmations                                     *)
(***************************************************************************)
NextDelivery ==
  \/ \E q \in Reqs :
       \/ \E ps \in ParamShapes, b \in BillNos, a \in DeskApprovals, v \in Variants :
            SubmitRequest(q, ps, b, IF q = "q1" THEN "G1" ELSE "G2", a, v)
       \/ PipelineStep(q)
  \/ \E b \in BillNos, file \in BOOLEAN : ConfirmDelivery(b, file)

SpecDelivery == InitRelease /\ [][NextDelivery]_vars

(***************************************************************************)
(* Specification of the ingestion cycles with their failures: the vouchers *)
(* of the accounting system may lack a field, the source may be            *)
(* unreachable at any fetch and the store may fail any transaction         *)
(***************************************************************************)
\* what a voucher can lack
Gaps == {"none", "voucher number", "date", "party", "amount"}

InitIngest ==
  /\ bill = [b \in {} |-> Null]
  /\ receipt = [r \in {} |-> Null]
  /\ ReleaseAtRest
  /\ \E g \in Gaps :
       upBills = [b \in BillNos |->
         IF b = "B1"
         THEN [voucher_no |-> "B1", bill_date |-> 1, party_name |-> "P1", amount |-> 1000]
         ELSE [voucher_no |-> IF g = "voucher number" THEN Null ELSE "B2",
               bill_date |-> IF g = "date" THEN NullNumber ELSE 1,
               party_name |-> IF g = "party" THEN Null ELSE "P1",
               amount |-> IF g = "amount" THEN NullNumber ELSE 500]]
  /\ \E g \in Gaps :
       upReceipts = [r \in ReceiptIds |->
         IF r = "R1"
         THEN [voucher_no |-> "R1", receipt_date |-> 1, party_name |-> "P1",
               amount |-> 500, narration |-> "cash"]
         ELSE [voucher_no |-> IF g = "voucher number" THEN Null ELSE "R2",
               receipt_date |-> IF g = "date" THEN NullNumber ELSE 1,
               party_name |-> IF g = "party" THEN Null ELSE "P2",
               amount |-> IF g = "amount" THEN NullNumber ELSE 500,
               narration |-> "cash"]]
  /\ isRunning = [s \in Services |-> FALSE]
  /\ cyc = [s \in Services |-> "idle"]
  /\ pass = [p \in Passes |-> IdlePass]
  /\ clock = 0
  /\ cycles = 0
  /\ mappings = 0
  /\ done = <<>>
  /\ lastRead = {}
  /\ clients = NoClients
  /\ CashierAtRest
  /\ OtpAtRest
  /\ IngestAtRest
  /\ TillAtRest
  /\ GateAtRest

\* a step of the cycle of service s
CycleStep(s) ==
  \/ \E ph \in Phases :
       \/ AdapterFails(s, ph)
       \/ BeginPhase(s, ph)
  \/ UpsertRow(s)
  \/ StoreFails(s)
  \/ CommitPhase(s)
  \/ PassSelect(s)
  \/ PassCandidate(s)
  \/ PassUpdate(s)
  \/ Finally(s)

NextIngest ==
  \/ \E path \in InvocationPaths : Trigger(path)
  \/ \E s \in Services : CycleStep(s)

SpecIngest == InitIngest /\ [][NextIngest]_vars

\* Fairness: a cycle is a chain of awaits; every awaited call (fetch, query,
\* close) settles - the HTTP calls carry timeouts, the store answers - and the
\* event loop then runs the continuation, so a cycle that can take a step
\* eventually takes one.  Nothing obliges a trigger to arrive.
SpecIngestFair == SpecIngest /\ \A s \in Services : WF_vars(CycleStep(s))

(***************************************************************************)
(* Specification of re-ingestion: the accounting staff alter a sales       *)
(* voucher that a cycle has ingested, and a later cycle ingests it again   *)
(***************************************************************************)
InitUpsert ==
  /\ bill = [b \in {} |-> Null]
  /\ receipt = [r \in {} |-> Null]
  /\ ReleaseAtRest
  /\ upBills = [b \in BillNos |->
       [voucher_no |-> b, bill_date |-> 1, party_name |-> "P1", amount |-> 1000]]
  /\ upReceipts = [r \in {"R1"} |->
       [voucher_no |-> "R1", receipt_date |-> 1, party_name |-> "P1",
        amount |-> 500, narration |-> "cash"]]
  /\ isRunning = [s \in Services |-> FALSE]
  /\ cyc = [s \in Services |-> "idle"]
  /\ pass = [p \in Passes |-> IdlePass]
  /\ clock = 0
  /\ cycles = 0
  /\ mappings = 0
  /\ done = <<>>
  /\ lastRead = {}
  /\ clients = NoClients
  /\ CashierAtRest
  /\ OtpAtRest
  /\ IngestAtRest
  /\ TillAtRest
  /\ GateAtRest

\* the voucher of an ingested bill is altered in the accounting system; the
\* fetch of a bills phase returns the vouchers as they were when it was sent,
\* so an alteration during an open bills phase is one right after it
EditVoucher(b) ==
  /\ b \in DOMAIN bill
  /\ \A s \in Services : tx[s].phase # "bills"
  /\ \E d \in Dates, a \in Amounts :
       upBills' = [upBills EXCEPT ![b] =
         [voucher_no |-> b, bill_date |-> d, party_name |-> "P2", amount |-> a]]
  /\ upBills' # upBills
  /\ UNCHANGED <<storeVars, releaseVars, readVars, poolVars, cashierVars, otpVars, ingestVars,
                 upReceipts, isRunning, cyc, pass, clock, cycles, mappings, done,
                 tillVars, gateVars>>

NextUpsert ==
  \/ \E path \in InvocationPaths : Trigger(path)
  \/ \E s \in Services : CycleStep(s)
  \/ EditVoucher("B1")

SpecUpsert == InitUpsert /\ [][NextUpsert]_vars

(***************************************************************************)
(* Specification of probing: TallyODBCService starts without a connection  *)
(* method, initialize() probes the two channels, and the cycles of the     *)
(* services run over a sales voucher that lacks its amount                 *)
(***************************************************************************)
InitProbe ==
  /\ bill = [b \in {} |-> Null]
  /\ receipt = [r \in {} |-> Null]
  /\ ReleaseAtRest
  /\ upBills = [b \in BillNos |->
       [voucher_no |-> b, bill_date |-> 1, party_name |-> "P1",
        amount |-> IF b = "B1" THEN 1000 ELSE NullNumber]]
  /\ upReceipts = [r \in {"R1"} |->
       [voucher_no |-> "R1", receipt_date |-> 1, party_name |-> "P1",
        amount |-> 500, narration |-> "cash"]]
  /\ isRunning = [s \in Services |-> FALSE]
  /\ cyc = [s \in Services |-> "idle"]
  /\ pass = [p \in Passes |-> IdlePass]
  /\ clock = 0
  /\ cycles = 0
  /\ mappings = 0
  /\ done = <<>>
  /\ lastRead = {}
  /\ clients = NoClients
  /\ CashierAtRest
  /\ OtpAtRest
  /\ tx = [s \in Services |-> NoTx]
  /\ connection = "none"
  /\ outcome = [s \in Services |-> NoOutcome]
  /\ via = [s \in Services |-> s]
  /\ counts = [s \in Services |-> NoCounts]
  /\ connectionMethod = Null
  /\ probeResp = NoProbe
  /\ probes = 0
  /\ TillAtRest
  /\ GateAtRest

NextProbe ==
  \/ \E odbcUp \in BOOLEAN, xmlUp \in BOOLEAN : Initialize(odbcUp, xmlUp)
  \/ \E path \in InvocationPaths : Trigger(path)
  \/ \E s \in Services : CycleStep(s)

SpecProbe == InitProbe /\ [][NextProbe]_vars

(***************************************************************************)
(* Specification of the empty cycle: the vouchers of the accounting system *)
(* leave the window of the fetch queries, and cycles go on                 *)
(***************************************************************************)
InitEmpty ==
  /\ bill = [b \in {} |-> Null]
  /\ receipt = [r \in {} |-> Null]
  /\ ReleaseAtRest
  /\ upBills = [b \in {"B1"} |->
       [voucher_no |-> "B1", bill_date |-> 1, party_name |-> "P1", amount |-> 500]]
  /\ upReceipts = [r \in {"R1"} |->
       [voucher_no |-> "R1", receipt_date |-> 1, party_name |-> "P1",
        amount |-> 500, narration |-> "cash"]]
  /\ isRunning = [s \in Services |-> FALSE]
  /\ cyc = [s \in Services |-> "idle"]
  /\ pass = [p \in Passes |-> IdlePass]
  /\ clock = 0
  /\ cycles = 0
  /\ mappings = 0
  /\ done = <<>>
  /\ lastRead = {}
  /\ clients = NoClients
  /\ CashierAtRest
  /\ OtpAtRest
  /\ IngestAtRest
  /\ TillAtRest
  /\ GateAtRest

\* the vouchers fall out of the trailing window of the fetch queries (WHERE
\* $DATE >= CURRENT_DATE - 30 days): later fetches return no record.  A fetch
\* returns the vouchers as they were when it was sent, so a change during an
\* open phase is one right after it
VouchersLeave ==
  /\ DOMAIN upBills # {}
  /\ \A s \in Services : tx[s].phase = "none"
  /\ upBills' = [b \in {} |-> Null]
  /\ upReceipts' = [r \in {} |-> Null]
  /\ UNCHANGED <<storeVars, releaseVars, readVars, poolVars, cashierVars, otpVars, ingestVars,
                 isRunning, cyc, pass, clock, cycles, mappings, done, tillVars, gateVars>>

NextEmpty ==
  \/ \E path \in InvocationPaths : Trigger(path)
  \/ \E s \in Services : CycleStep(s)
  \/ VouchersLeave

SpecEmpty == InitEmpty /\ [][NextEmpty]_vars

(***************************************************************************)
(* Claims about the release pipeline                                       *)
(***************************************************************************)
\* number of release records of bill b, release_self and release_transporter together
ReleaseCount(b) ==
  Cardinality({r \in release_self : r.bill_no = b})
    + Cardinality({r \in release_transporter : r.bill_no = b})

\* number of release records that carry gatepass id g, both tables together
GatepassCount(g) ==
  Cardinality({r \in release_self : r.gatepass_id = g})
    + Cardinality({r \in release_transporter : r.gatepass_id = g})

Released(q) == req[q].pc = "done" /\ req[q].result = "200 released"

AlreadyReleasedErrors ==
  {"400 Bill already released", "400 Bill already has a release record"}

\* C1: in every reachable state, under any interleaving of self-release and
\* transporter-release requests, every bill has at most one release record
\* counted across release_self and release_transporter together.
C1_AtMostOneReleasePerBill == \A b \in BillNos : ReleaseCount(b) <= 1

\* C1 witness: two requests for the same bill raced past validateRelease; one
\* committed the release and the other was turned away by the locked re-check.
C1_Witness ==
  \E q1, q2 \in Reqs :
    /\ q1 # q2
    /\ req[q1].bill_no = req[q2].bill_no
    /\ req[q1].variant # req[q2].variant
    /\ Released(q1)
    /\ req[q2].pc = "done"
    /\ req[q2].result = "400 Bill already has a release record"
    /\ ReleaseCount(req[q1].bill_no) = 1

\* the approval a bill with remaining due needs: a PIN of an active manager, or
\* a verified-OTP indicator without a PIN
ApprovalSatisfied(r) ==
  \/ r.manager_pin # Null /\ \E m \in ActiveManagers : PinOfManager[m] = r.manager_pin
  \/ r.manager_pin = Null /\ r.otp_verified

\* C2: when two otherwise valid release requests for the same unreleased bill
\* (distinct unused gatepass ids, approval satisfied) run concurrently, exactly
\* one commits a release record and the other is rejected with an
\* already-released error.
C2_ExactlyOneCommits ==
  \A q1, q2 \in Reqs :
    ( /\ q1 # q2
      /\ req[q1].pc = "done" /\ req[q2].pc = "done"
      /\ req[q1].fresh /\ req[q2].fresh
      /\ req[q1].bill_no = req[q2].bill_no
      /\ req[q1].gatepass_id # req[q2].gatepass_id
      /\ ApprovalSatisfied(req[q1]) /\ ApprovalSatisfied(req[q2]) )
    => \/ Released(q1) /\ req[q2].result \in AlreadyReleasedErrors
       \/ Released(q2) /\ req[q1].result \in AlreadyReleasedErrors

C4_ApprovalForDueBill ==
  /\ [][\A q \in Reqs :
          ( /\ req[q].pc # "done" /\ req'[q].pc = "done"
            /\ req[q].remaining_due > 0
            /\ \E b \in BillNos : ReleaseCount(b)' > ReleaseCount(b) )
          => \/ \E m \in ActiveManagers : PinOfManager[m] = req[q].manager_pin
             \/ req[q].otp_verified]_vars
  /\ [](\A q \in Reqs :
          ( /\ req[q].pc = "done"
            /\ req[q].remaining_due > 0
            /\ req[q].manager_pin = Null /\ ~req[q].otp_verified )
          => req[q].result # "200 released")

\* C4 witness: a bill with remaining due has been released on a manager's PIN
C4_Witness ==
  \E q \in Reqs :
    /\ Released(q)
    /\ req[q].remaining_due > 0
    /\ req[q].manager_pin = "PIN1"
    /\ \E r \in release_self \cup release_transporter :
         r.bill_no = req[q].bill_no /\ r.approved_by_manager_id = "M1"

UpToGatepassCheck == {"validateRelease", "validateReleaseExisting", "validateGatepassId"}

\* C13: a release request that meets, up to its gatepass check, a committed
\* release of either variant (of the same or of another bill) carrying its
\* gatepass id is answered with the gatepass-in-use error, and the step that
\* answers it inserts no release record.
C13_GatepassInUseRejected ==
  [][\A q \in Reqs :
       ( /\ req[q].pc \in UpToGatepassCheck
         /\ req'[q].pc = "done"
         /\ ReleasesOfGatepass(req[q].gatepass_id) # {} )
       => /\ req'[q].result = "400 Gatepass ID already used"
          /\ UNCHANGED <<release_self, release_transporter>>]_vars

GuardedPaths == {"timer", "trigger", "admin"}
RunningCycles == {s \in {ServiceOf[path] : path \in GuardedPaths} : cyc[s] # "idle"}

\* C5: in every reachable state at most one ingestion cycle is executing,
\* whichever of the scheduled timer, the on-demand sync trigger and the admin
\* ETL trigger started it.
C5_SingleFlight == Cardinality(RunningCycles) <= 1

\* C6: when one service has run two cycles one after the other with nothing in
\* between (no overlapping cycle, no mapping request), the store after the
\* second holds the same bill rows, receipt rows and bill-links as after the
\* first.
C6_SecondCycleIdempotent ==
  ( /\ Len(done) = 2
    /\ cycles = 2
    /\ mappings = 0
    /\ done[1].service = done[2].service
    /\ ~done[1].overlap /\ ~done[2].overlap )
  => done[2].store = done[1].store

\* C7: no step changes a bill-link that has been set: a receipt linked to a bill
\* stays linked to that bill.
C7_LinkOneWay ==
  [][\A r \in DOMAIN receipt :
       receipt[r].bill_reference # Null
         => receipt'[r].bill_reference = receipt[r].bill_reference]_vars

\* the auto-mapping pass p writes a link in this step
Links(p) == pass[p].pc = "update" /\ pass'[p] # pass[p]

\* C8: whenever an auto-mapping pass links a receipt to a bill, the remaining due
\* of that bill at that moment is at least the receipt amount (so a receipt
\* larger than the remaining due of every same-party bill stays unmapped).
C8_NoLinkBeyondDue ==
  [][\A p \in Passes :
       Links(p) =>
         bill_status(pass[p].cand).remaining_due
           >= receipt[Head(pass[p].todo).receipt_id].amount]_vars

\* the bills eligible for a receipt row: same party name, remaining due > 0 and
\* at least the receipt amount
EligibleBills(rc) ==
  {b \in DOMAIN bill :
     /\ bill[b].party_name = rc.party_name
     /\ bill_status(b).remaining_due > 0
     /\ bill_status(b).remaining_due >= rc.amount}

\* the auto-mapping pass p picks a bill for its current receipt in this step
Picks(p) == pass[p].pc = "candidate" /\ pass'[p].pc = "update"

\* C9: whenever an auto-mapping pass picks a bill for an unmapped receipt for
\* which some bill is eligible, the bill it picks is one of the eligible bills
\* of the receipt's party, and no eligible bill has an earlier bill date.
C9_EarliestEligible ==
  [][\A p \in Passes :
       (Picks(p) /\ EligibleBills(Head(pass[p].todo)) # {}) =>
         LET rc == Head(pass[p].todo)
             b == pass'[p].cand
         IN /\ b \in EligibleBills(rc)
            /\ \A c \in EligibleBills(rc) : bill[b].bill_date <= bill[c].bill_date]_vars

\* the total of the receipts linked to bill b, summed directly over the table
LinkedTotal(b) ==
  SumAmount(receipt, {r \in DOMAIN receipt : receipt[r].bill_reference = b})

\* the status and remaining due the rules give for a bill of amount `amount`
\* whose linked receipts total `total`
Expected(row, total, amount) ==
  /\ row.receipt_total = total
  /\ row.remaining_due = amount - total
  /\ total = 0 => row.status = "DUE"
  /\ (total # 0 /\ total >= amount) => row.status = "PAID"
  /\ (total # 0 /\ total < amount) => row.status = "PART-PAID"

\* C10: for every bill of the store, the status the view derives from the
\* current rows is DUE when the total of its linked receipts is 0, PAID when
\* that total is at least the bill amount and PART-PAID otherwise, and its
\* remaining due is the bill amount minus that total; and every read of a bill
\* returns the row so derived from the store as it is at the read.
C10_DerivedStatus ==
  /\ [](\A b \in DOMAIN bill :
          Expected(bill_status(b), LinkedTotal(b), bill[b].amount))
  /\ [][lastRead' # lastRead =>
          \A row \in lastRead' :
            Expected(row, LinkedTotal(row.bill_no), bill[row.bill_no].amount)]_vars

\* C10 witness: after a mapping request, a read of B2 (amount 1000, one receipt
\* of 500 linked) has returned PART-PAID with remaining due 500 while B1
\* (amount 500, one receipt of 500 linked) derives PAID
C10_Witness ==
  /\ mappings = 1
  /\ pass["ondemand"].pc = "idle"
  /\ \E row \in lastRead :
       /\ row.bill_no = "B2"
       /\ row.bill_amount = 1000
       /\ row.status = "PART-PAID"
       /\ row.remaining_due = 500
  /\ bill_status("B2").status = "PART-PAID"
  /\ bill_status("B1").status = "PAID"
  /\ bill_status("B1").remaining_due = 0

(***************************************************************************)
(* Claims about the cashier desk                                           *)
(***************************************************************************)
\* C11: in every reachable state each cashier has at most one session with
\* status ACTIVE, also when two open-session requests of the same cashier are
\* in flight together.
C11_OneActiveSession == \A c \in Cashiers : Cardinality(ActiveSessions(c)) <= 1

FullHints(b) == {ph \in payment_hint : ph.bill_no = b /\ ph.remaining_due = 0}

\* C16: once a cashier with an ACTIVE session has recorded a payment hint whose
\* cash, cheque and digital amounts add up to the bill amount, a self-release
\* request for that bill, unreleased and with an unused gatepass id when the
\* request was sent, carrying no manager PIN and no OTP indicator, is answered
\* with success and its release record is created.
C16_HintedBillReleases ==
  [][\A q \in Reqs :
       ( /\ req[q].pc # "done" /\ req'[q].pc = "done"
         /\ req[q].variant = "self"
         /\ req[q].fresh
         /\ req[q].manager_pin = Null /\ ~req[q].otp_verified
         /\ FullHints(req[q].bill_no) # {} )
       => /\ req'[q].result = "200 released"
          /\ \E x \in release_self' : x.bill_no = req[q].bill_no]_vars

(***************************************************************************)
(* Claims about the failures of ingestion cycles                           *)
(***************************************************************************)
\* C17: after any cycle that started - whether it completed, failed on the
\* adapter, failed in a store transaction or found the source unavailable -
\* the cycle-in-progress flag of its service is eventually false again.
C17_FlagEventuallyFalse ==
  \A s \in Services : isRunning[s] ~> ~isRunning[s]

\* the same for the services whose finally block resets the flag first
C17_FlagEventuallyFalseOdbcXml ==
  \A s \in {"odbc", "xml"} : isRunning[s] ~> ~isRunning[s]

\* the keys the upserts of a transaction wrote
WrittenKeys(t) == {t.writes[i].key : i \in 1..Len(t.writes)}

\* the step ends the transaction of the cycle of s for a reason other than a
\* failure of the store itself
EndsPhase(s) ==
  /\ tx[s].phase # "none"
  /\ tx'[s].phase = "none"
  /\ outcome'[s].result # "store error"

\* C18: a raw bill or receipt record that lacks a voucher number, date, party or
\* amount is dropped on its own: the phase whose batch holds such a record
\* still commits, it has upserted exactly the complete records of the batch,
\* and the cycle goes on.
C18_IncompleteRecordDropped ==
  [][\A s \in Services :
       ( /\ EndsPhase(s)
         /\ \E k \in DOMAIN Upstream(tx[s].phase) : ~Complete(tx[s].phase, k) )
       => /\ outcome'[s].result = "committed"
          /\ cyc'[s] # "finally"
          /\ WrittenKeys(tx[s]) =
               {VoucherNumber(tx[s].phase, k) :
                  k \in {x \in DOMAIN Upstream(tx[s].phase) : Complete(tx[s].phase, x)}}]_vars

\* C18 for the service that parses the XML export
C18_IncompleteRecordDroppedXml ==
  [][( /\ EndsPhase("xml")
       /\ \E k \in DOMAIN Upstream(tx["xml"].phase) : ~Complete(tx["xml"].phase, k) )
     => /\ outcome'["xml"].result = "committed"
        /\ WrittenKeys(tx["xml"]) =
             {VoucherNumber(tx["xml"].phase, k) :
                k \in {x \in DOMAIN Upstream(tx["xml"].phase) :
                         Complete(tx["xml"].phase, x)}}]_vars

\* the cycle of s found the source unreachable in this step
FindsUnavailable(s) ==
  /\ AtPhase(s, "bills")
  /\ cyc'[s] = "finally"
  /\ outcome'[s].result = "unavailable"

\* the cycle of s that found the source unreachable leaves its finally block
LeavesAfterUnavailable(s) ==
  /\ cyc[s] = "finally"
  /\ outcome[s].result = "unavailable"
  /\ cyc'[s] # "finally"

\* C19: when the external source cannot be reached, the cycle performs no
\* upsert and no mapping and leaves bills, receipts and bill-links unchanged;
\* it ends without raising to its caller, with the flag false, so that the
\* next trigger starts a complete cycle.
C19_UnavailableCycleIsSkipped ==
  [][\A s \in Services :
       /\ FindsUnavailable(s) =>
            /\ UNCHANGED <<bill, receipt>>
            /\ tx'[s] = NoTx /\ pass'[s] = IdlePass
       /\ LeavesAfterUnavailable(s) =>
            /\ UNCHANGED <<bill, receipt>>
            /\ cyc'[s] = "idle"
            /\ ~isRunning'[s]
            /\ outcome'[s].result # "raised"]_vars

\* C19 for the services whose finally block resets the flag first
C19_UnavailableCycleIsSkippedOdbcXml ==
  [][\A s \in {"odbc", "xml"} :
       /\ FindsUnavailable(s) =>
            /\ UNCHANGED <<bill, receipt>>
            /\ tx'[s] = NoTx /\ pass'[s] = IdlePass
       /\ LeavesAfterUnavailable(s) =>
            /\ UNCHANGED <<bill, receipt>>
            /\ cyc'[s] = "idle"
            /\ ~isRunning'[s]
            /\ outcome'[s].result # "raised"]_vars

\* the step ends the open transaction of the cycle of s with an error
FailsPhase(s) ==
  /\ tx[s].phase # "none"
  /\ tx'[s].phase = "none"
  /\ outcome'[s].result \in {"rejected record", "store error"}

\* the step is a statement of the transaction of s that leaves it open
InsidePhase(s) == tx'[s] # tx[s] /\ tx'[s].phase # "none"

\* the step commits the open transaction of the cycle of s
CommitsPhase(s) ==
  /\ tx[s].phase # "none"
  /\ tx'[s].phase = "none"
  /\ outcome'[s].result = "committed"

\* C20: each ingestion phase is all-or-nothing.  The upserts of an open phase
\* are not visible in the store; when an upsert or the transaction of a phase
\* fails, the store is left as it was before the phase, so none of the
\* upserts the phase made in this cycle is visible, and the bills the bills
\* phase committed stay when the receipts phase fails; when the phase
\* commits, every record it upserted is in its table.
C20_PhaseAllOrNothing ==
  [][\A s \in Services :
       /\ InsidePhase(s) => UNCHANGED <<bill, receipt>>
       /\ FailsPhase(s) => UNCHANGED <<bill, receipt>>
       /\ CommitsPhase(s) =>
            /\ WrittenKeys(tx[s]) \subseteq
                 DOMAIN (IF tx[s].phase = "bills" THEN bill' ELSE receipt')
            /\ tx[s].phase = "bills" => receipt' = receipt
            /\ tx[s].phase = "receipts" => bill' = bill]_vars

\* the receipts phase of the first cycle failed after it had upserted a
\* receipt: the bills of that cycle are in the store, no receipt is
C20_Witness ==
  \E s \in Services :
    /\ cycles = 1
    /\ outcome[s].phase = "receipts"
    /\ outcome[s].result \in {"rejected record", "store error"}
    /\ outcome[s].discarded >= 1
    /\ DOMAIN bill # {}
    /\ DOMAIN receipt = {}

(***************************************************************************)
(* Claims about mapping and the derived statuses                           *)
(***************************************************************************)
\* the receipts phase of the cycle of s commits in this step
ReceiptsStored(s) == cyc[s] = "receipts" /\ cyc'[s] = "automap"

\* an auto-mapping pass writes a link in this step
PassWrites(p) == pass[p].pc = "update" /\ pass'[p] # pass[p]

\* the upstream receipts whose narration carries a bill reference
Referencing == {r \in DOMAIN upReceipts : BillReferenceOf(upReceipts[r].narration) # Null}

\* C21: a receipt ingested with an explicit bill reference in its narration is
\* stored linked to exactly the referenced bill, and no auto-mapping pass
\* writes another link on such a receipt.
C21_ExplicitReferenceKept ==
  [][/\ \A s \in Services :
          ReceiptsStored(s) =>
            \A r \in Referencing :
              receipt'[r].bill_reference = BillReferenceOf(upReceipts[r].narration)
     /\ \A p \in Passes :
          PassWrites(p) =>
            \A r \in Referencing \cap DOMAIN receipt :
              receipt'[r].bill_reference = receipt[r].bill_reference]_vars

\* the first half of C21 for the services that match the narration themselves
C21_ExplicitReferenceStoredOdbcXml ==
  [][\A s \in {"odbc", "xml"} :
       ReceiptsStored(s) =>
         \A r \in Referencing :
           receipt'[r].bill_reference = BillReferenceOf(upReceipts[r].narration)]_vars

\* C22: auto-mapping never links a receipt to a bill whose bill date is later
\* than the receipt date.
C22_NoLinkToLaterBill ==
  [][\A p \in Passes :
       PassWrites(p) =>
         bill[pass[p].cand].bill_date <= receipt[Head(pass[p].todo).receipt_id].receipt_date]_vars

\* C22 for the pass of TallyETL, whose candidate query compares the dates
C22_NoLinkToLaterBillEtl ==
  [][PassWrites("etl") =>
       bill[pass["etl"].cand].bill_date
         <= receipt[Head(pass["etl"].todo).receipt_id].receipt_date]_vars

\* the moves of the derived release status of a bill
StatusMoves ==
  {<<"READY", "RELEASED_SELF">>, <<"READY", "IN_TRANSIT">>, <<"IN_TRANSIT", "DELIVERED">>}

\* a delivery confirmation is answered in this step for a bill that has no
\* transporter release
ConfirmsWithoutTransport ==
  /\ podResp' # podResp
  /\ ~\E rt \in release_transporter : rt.bill_no = podResp'.bill_no

\* C23: the derived release status of every bill only moves READY ->
\* RELEASED_SELF, READY -> IN_TRANSIT or IN_TRANSIT -> DELIVERED (it never
\* returns to READY and never leaves RELEASED_SELF or DELIVERED), and a
\* delivery confirmation for a bill without a transporter release is rejected
\* and changes no release record.
C23_ReleaseStatusMoves ==
  [][/\ \A b \in DOMAIN bill :
          \/ release_status(b)' = release_status(b)
          \/ <<release_status(b), release_status(b)'>> \in StatusMoves
     /\ ConfirmsWithoutTransport =>
          /\ podResp'.result # "200 POD uploaded"
          /\ UNCHANGED <<release_self, release_transporter>>]_vars

\* one bill is delivered, the other was handed to the customer, and the
\* confirmation of a delivery of that other bill has been rejected
C23_Witness ==
  /\ release_status("B1") = "DELIVERED"
  /\ release_status("B2") = "RELEASED_SELF"
  /\ podResp = [bill_no |-> "B2", result |-> "404 Transport release not found"]

(***************************************************************************)
(* Claims about the till                                                   *)
(***************************************************************************)
\* the expected cash of session x: opening float, plus the cash of the hints
\* its cashier recorded within its window, minus its own petty cash, plus its
\* own till adjustments
ExpectedCashOfSession(x) ==
  x.start_float
  + SumRows({[n |-> ph.n, amount |-> ph.cash_amt] :
       ph \in {h \in payment_hint : h.cashier_id = x.cashier_id /\ InWindow(h, x)}})
  - SumRows({pc \in petty_cash : pc.session_id = x.id})
  + SumRows({[n |-> a.n,
              amount |-> IF a.type = "ADD_TO_TILL" THEN a.amount ELSE 0 - a.amount] :
       a \in {t \in till_adjustment : t.session_id = x.id}})

\* a request for the current session of U1, who has one, is answered
CurrentAnswered ==
  /\ tillResp' # tillResp
  /\ tillResp'.route = "current"
  /\ ActiveSessions("U1") # {}

\* C24: the expected cash reported for a session is its opening float, plus
\* the cash amounts of the payment hints its cashier recorded within the
\* session window, minus the petty cash of that session only, plus the till
\* adjustments of that session only.
C24_ExpectedCash ==
  [][CurrentAnswered =>
       /\ tillResp'.result = "200"
       /\ tillResp'.expected_cash = ExpectedCashOfSession(LatestActive("U1"))]_vars

\* C24 where the function returns a value
C24_ExpectedCashWhereComputed ==
  [][(CurrentAnswered /\ variable_conflict # "error") =>
       tillResp'.expected_cash = ExpectedCashOfSession(LatestActive("U1"))]_vars

\* a close request for session x, ACTIVE and leaving no paid bill unreleased,
\* is answered in this step
CloseAnswered(x) ==
  /\ tillResp' # tillResp
  /\ tillResp'.route = "close"
  /\ tillResp'.subject = x.id
  /\ x.status = "ACTIVE"
  /\ UnreleasedPaid(x) = {}

\* what a close of session x must leave: the session CLOSED, the reported
\* variance the counted cash minus the expected cash, approval required
\* exactly above the threshold
ClosedAsClaimed(x) ==
  /\ tillResp'.result = "200 Session closed successfully"
  /\ \E y \in cashier_session' :
       /\ y.id = x.id
       /\ y.status = "CLOSED"
       /\ tillResp'.variance = y.counted_cash - ExpectedCashOfSession(x)
       /\ tillResp'.requiresApproval <=> Abs(tillResp'.variance) > VarianceThreshold

\* C25: a session close reports variance = counted cash - expected cash,
\* requires approval exactly when |variance| exceeds the threshold, and in
\* either case leaves the session CLOSED.
C25_CloseReportsVariance ==
  [][\A x \in cashier_session : CloseAnswered(x) => ClosedAsClaimed(x)]_vars

\* C25 where calculate_expected_cash returns a value and no petty cash or
\* till adjustment exists
C25_CloseReportsVarianceWhereComputed ==
  [][\A x \in cashier_session :
       ( /\ CloseAnswered(x)
         /\ variable_conflict # "error"
         /\ petty_cash = {} /\ till_adjustment = {} )
       => ClosedAsClaimed(x)]_vars

\* C25 without the reported amount: the close is persisted and flagged
C25_CloseFlaggedWhereComputed ==
  [][\A x \in cashier_session :
       (CloseAnswered(x) /\ variable_conflict # "error") =>
         /\ tillResp'.result = "200 Session closed successfully"
         /\ \E y \in cashier_session' :
              /\ y.id = x.id /\ y.status = "CLOSED"
              /\ tillResp'.requiresApproval <=>
                   Abs(y.counted_cash - calculate_expected_cash(x)) > VarianceThreshold]_vars

(***************************************************************************)
(* Claims about the gate                                                   *)
(***************************************************************************)
\* C26: every gate-log entry carries the gatepass id of an existing release,
\* and no gatepass id has more than one gate-log entry, however the gate-log
\* requests interleave.
C26_OneGateLogPerGatepass ==
  /\ \A gl \in gate_log : ReleasesOfGatepass(gl.gatepass_id) # {}
  /\ \A g \in Gatepasses : Cardinality({gl \in gate_log : gl.gatepass_id = g}) <= 1

\* the first half of C26
C26_GateLogOfARelease ==
  \A gl \in gate_log : ReleasesOfGatepass(gl.gatepass_id) # {}

\* a payment-hint request is answered in this step
HintAnswered == hints' = hints + 1

\* C28: a payment-hint request of a cashier without an ACTIVE session is
\* answered 'No active cashier session' and creates no payment hint, cheque
\* register or digital reference row; a request of a cashier with an ACTIVE
\* session stores a hint whose remaining due is the bill amount minus the
\* cash, cheque and digital amounts of the hint.
C28_HintNeedsActiveSession ==
  [][HintAnswered =>
       LET c == tillResp'.subject IN
         /\ tillResp'.route = "payment-hint"
         /\ ActiveSessions(c) = {} =>
              /\ tillResp'.result = "400 No active cashier session"
              /\ UNCHANGED <<payment_hint, cheque_register, digital_payment_ref>>
         /\ ActiveSessions(c) # {} =>
              \E ph \in payment_hint' \ payment_hint :
                /\ payment_hint' = payment_hint \cup {ph}
                /\ ph.cashier_id = c
                /\ ph.bill_no \in DOMAIN bill
                /\ ph.remaining_due =
                     bill[ph.bill_no].amount - ph.cash_amt - ph.cheque_amt - ph.digital_amt
                /\ tillResp'.remaining_due = ph.remaining_due]_vars

\* a cashier without a session has been refused while the other cashier has
\* an ACTIVE session, and nothing was recorded
C28_Witness ==
  /\ tillResp.route = "payment-hint"
  /\ tillResp.result = "400 No active cashier session"
  /\ ActiveSessions(tillResp.subject) = {}
  /\ \E c \in Cashiers : ActiveSessions(c) # {}
  /\ payment_hint = {} /\ cheque_register = {} /\ digital_payment_ref = {}

(***************************************************************************)
(* Claims about the upsert of bills                                        *)
(***************************************************************************)
\* the bills phase of service s commits in this step
BillsCommitted(s) ==
  /\ tx[s].phase = "bills"
  /\ tx'[s].phase = "none"
  /\ outcome'[s].result = "committed"

\* C27: an ingest of bill records leaves, for every ingested voucher number,
\* exactly one row that carries the date, party and amount of the ingested
\* record and a refreshed sync timestamp, whether the number was stored before
\* (the row is overwritten) or not (one row is added); other rows stay.
C27_UpsertLeavesOneRow ==
  [][\A s \in Services : BillsCommitted(s) =>
       LET numbers == {VoucherNumber("bills", k) : k \in DOMAIN upBills} IN
         /\ DOMAIN bill' = DOMAIN bill \cup numbers
         /\ Cardinality(DOMAIN bill') =
              Cardinality(DOMAIN bill) + Cardinality(numbers \ DOMAIN bill)
         /\ \A b \in DOMAIN bill \ numbers : bill'[b] = bill[b]
         /\ \A k \in DOMAIN upBills :
              LET row == bill'[VoucherNumber("bills", k)] IN
                /\ row.bill_date = upBills[k].bill_date
                /\ row.party_name = upBills[k].party_name
                /\ row.amount = upBills[k].amount
                /\ row.last_sync_ts = clock'
                /\ VoucherNumber("bills", k) \in DOMAIN bill =>
                     row.last_sync_ts > bill[VoucherNumber("bills", k)].last_sync_ts]_vars

\* bill B1, ingested for party P1, has been ingested again after its voucher
\* was altered: its one row carries the new party and date, next to the row
\* of B2 that the same cycle refreshed
C27_Witness ==
  /\ DOMAIN bill = BillNos
  /\ bill["B1"].party_name = "P2"
  /\ bill["B1"].bill_date = 2
  /\ bill["B1"].amount = 500
  /\ bill["B2"].party_name = "P1"
  /\ bill["B2"].last_sync_ts = bill["B1"].last_sync_ts
  /\ bill["B1"].last_sync_ts > 1

(***************************************************************************)
(* Claims about probing                                                    *)
(***************************************************************************)
\* a cycle of TallyODBCService starts in this step
OdbcCycleStarts == cyc["odbc"] = "idle" /\ cyc'["odbc"] = "bills"

\* the cycle of TallyODBCService sends the fetch of a phase in this step and
\* receives records
OdbcFetches == tx["odbc"].phase = "none" /\ tx'["odbc"].phase # "none"

\* C29: initialize() selects hybrid when both channels respond, odbc when
\* only the tabular channel responds, xml when only the document channel
\* responds, and fails with an error when neither responds; a cycle started
\* in hybrid mode fetches its bills and its receipts through the tabular
\* channel, which returns every voucher.
C29_ProbeSelectsMethod ==
  [][/\ probes' # probes =>
          LET o == probeResp'.odbc
              x == probeResp'.xml
          IN /\ (o /\ x) => connectionMethod' = "hybrid" /\ probeResp'.result = "hybrid"
             /\ (o /\ ~x) => connectionMethod' = "odbc" /\ probeResp'.result = "odbc"
             /\ (~o /\ x) => connectionMethod' = "xml" /\ probeResp'.result = "xml"
             /\ (~o /\ ~x) => probeResp'.result = "error"
     /\ (OdbcCycleStarts /\ connectionMethod = "hybrid") => via'["odbc"] = "odbc"
     /\ (cyc["odbc"] # "idle" /\ cyc'["odbc"] # "idle") => via'["odbc"] = via["odbc"]
     /\ (OdbcFetches /\ via["odbc"] = "odbc") =>
          {tx'["odbc"].todo[i] : i \in 1..Len(tx'["odbc"].todo)}
            = DOMAIN Upstream(tx'["odbc"].phase)]_vars

\* the one probe found both channels, and the cycle started after it has
\* ingested the voucher without amount, which only the tabular channel
\* returns, and is fetching its receipts
C29_Witness ==
  /\ probes = 1
  /\ probeResp = [odbc |-> TRUE, xml |-> TRUE, result |-> "hybrid"]
  /\ connectionMethod = "hybrid"
  /\ via["odbc"] = "odbc"
  /\ tx["odbc"].phase = "receipts"
  /\ DOMAIN bill = BillNos

(***************************************************************************)
(* Claims about the empty cycle                                            *)
(***************************************************************************)
\* the cycle of service s has received no bill record and no receipt record
\* and is in its auto-mapping pass
ReceivedNothing(s) ==
  /\ cyc[s] = "automap"
  /\ counts[s].bills = 0
  /\ counts[s].receipts = 0

\* C30: a cycle that receives zero bill records and zero receipt records
\* completes reporting 0 bills, 0 receipts and 0 mapped receipts, and writes
\* nothing to the store.
C30_EmptyCycleChangesNothing ==
  [][\A s \in Services :
       /\ (ReceivedNothing(s) /\ cyc'[s] = "finally") => counts'[s] = NoCounts
       /\ (ReceivedNothing(s) /\ pass'[s] # pass[s]) => UNCHANGED storeVars]_vars

\* C30 where the store holds no unmapped receipt when the pass selects
C30_EmptyCycleWithNothingToMap ==
  [][\A s \in Services :
       (ReceivedNothing(s) /\ pass[s].pc = "select" /\ UnmappedReceipts = {}
          /\ pass'[s] # pass[s]) =>
         /\ cyc'[s] = "finally"
         /\ counts'[s] = NoCounts
         /\ UNCHANGED storeVars]_vars

(***************************************************************************)
(* Claims about concurrent auto-mapping passes                             *)
(***************************************************************************)
\* the total of the receipts linked to bill b once this step is taken
LinkedTotalAfter(b) ==
  SumAmount(receipt', {r \in DOMAIN receipt' : receipt'[r].bill_reference = b})

\* C31: whenever an auto-mapping pass of the real-time service (the pass of a
\* cycle or the on-demand one) links a receipt to a bill, the receipts linked to
\* that bill after the step total at most the bill amount: the remaining due
\* does not become negative through auto-mapping, also when passes overlap.
C31_AutoMapWithinAmount ==
  [][\A p \in Passes :
       (Links(p) /\ MapperOf[p] = "odbc") =>
         LinkedTotalAfter(pass[p].cand) <= bill[pass[p].cand].amount]_vars

\* C31 for a link written while the bill still has the remaining due that the
\* candidate query of the pass saw and the receipt is still unmapped
C31_AutoMapWithinAmountUndisturbed ==
  [][\A p \in Passes :
       ( /\ Links(p) /\ MapperOf[p] = "odbc"
         /\ bill_status(pass[p].cand).remaining_due
              >= receipt[Head(pass[p].todo).receipt_id].amount
         /\ receipt[Head(pass[p].todo).receipt_id].bill_reference = Null )
       => LinkedTotalAfter(pass[p].cand) <= bill[pass[p].cand].amount]_vars

(***************************************************************************)
(* Specification of one release request next to the manual mapping route:  *)
(* the store changes between the steps of the release pipeline             *)
(***************************************************************************)
NextReleaseStore ==
  \/ Submit("q1")
  \/ PipelineStep("q1")
  \/ \E r \in ReceiptIds, b \in BillNos : MapReceipt(r, b)

SpecReleaseStore == InitRelease /\ [][NextReleaseStore]_vars

\* the step of request q commits a release record
Commits(q) ==
  /\ req[q].pc = "handler"
  /\ req'[q].pc = "done"
  /\ req'[q].result = "200 released"

\* the release record that the step of request q commits
Committed(q) ==
  CHOOSE r \in (release_self' \cup release_transporter')
                 \ (release_self \cup release_transporter) : TRUE

C32_UnapprovedReleaseValidatedPaid ==
  [][\A q \in Reqs :
       ( /\ Commits(q)
         /\ Committed(q).approved_by_manager_id = Null
         /\ ~req[q].otp_verified )
       => req[q].remaining_due <= 0]_vars

(***************************************************************************)
(* Claims about the stored close fields of a session                       *)
(***************************************************************************)
\* the step closes session x successfully
ClosesSuccessfully(x) ==
  /\ CloseAnswered(x)
  /\ tillResp'.result = "200 Session closed successfully"

\* the row of session x after the step
RowAfter(x) == CHOOSE y \in cashier_session' : y.id = x.id

\* C33: after any successful session close the stored expected_cash equals the
\* expected cash computed for the session and the stored variance equals the
\* counted cash minus that expected cash, whether the variance is within or
\* above the threshold.
C33_StoredCloseFields ==
  [][\A x \in cashier_session :
       ClosesSuccessfully(x) =>
         /\ RowAfter(x).expected_cash = calculate_expected_cash(x)
         /\ RowAfter(x).variance = RowAfter(x).counted_cash - calculate_expected_cash(x)]_vars

\* C33 for the closes whose variance exceeds the threshold
C33_StoredCloseFieldsAboveThreshold ==
  [][\A x \in cashier_session :
       ( /\ ClosesSuccessfully(x)
         /\ tillResp'.requiresApproval )
       => /\ RowAfter(x).expected_cash = calculate_expected_cash(x)
          /\ RowAfter(x).variance = RowAfter(x).counted_cash - calculate_expected_cash(x)]_vars

(***************************************************************************)
(* Specification of the close route with close requests in flight          *)
(* together: a cashier opens sessions, close requests arrive on two slots  *)
(***************************************************************************)
NextClose ==
  \/ OpenSessionSubmit("q1", "U1")
  \/ OpenSessionExisting("q1")
  \/ OpenSessionInsert("q1")
  \/ \E q \in Reqs :
       \/ \E id \in 1..2, counted_cash \in CountedCash : CloseSubmit(q, id, counted_cash)
       \/ ValidateSessionCloseStatus(q)
       \/ ValidateSessionCloseUnreleased(q)
       \/ ValidateCashVariance(q)
       \/ CloseUpdate(q)
       \/ OpenSessionRespond(q)

SpecClose == InitTill /\ [][NextClose]_vars

\* the close fields of a session row
CloseFields(x) == <<x.status, x.counted_cash, x.expected_cash, x.variance, x.closed_hints>>

\* C34: the close fields of a session are written at most once: a step changes
\* the close fields of a session only if the session is ACTIVE before the
\* step, also when two close requests of the same ACTIVE session are in flight
\* together; a close request that meets a session that is not ACTIVE is
\* rejected.
C34_CloseFieldsWrittenOnce ==
  [][\A x \in cashier_session :
       (\E y \in cashier_session' : y.id = x.id /\ CloseFields(y) # CloseFields(x))
         => x.status = "ACTIVE"]_vars

\* C34 for the requests validated against a session that is not ACTIVE
C34_CloseOfClosedSessionRejected ==
  [][\A q \in Reqs :
       ( /\ sess[q].pc = "validateSessionClose"
         /\ sess'[q].pc # "validateSessionClose"
         /\ \E x \in cashier_session : x.id = sess[q].session_id /\ x.status # "ACTIVE" )
       => /\ sess'[q].result = "400 Session already closed"
          /\ UNCHANGED cashier_session]_vars

(***************************************************************************)
(* Claims about what an auto-mapping pass touches                          *)
(***************************************************************************)
\* the tables of the store other than receipt
OtherTables ==
  <<bill, release_self, release_transporter, cashier_session, payment_hint,
    customer_otp, gate_log, petty_cash, till_adjustment, cheque_register,
    digital_payment_ref>>

\* the columns of a receipt row other than the bill-link
ReceiptRest(row) ==
  <<row.receipt_date, row.party_name, row.amount, row.last_sync_ts>>

\* pass p takes this step
PassSteps(p) == pass'[p] # pass[p] /\ pass[p].pc # "idle"

\* the receipt ids among the rows a pass still holds
Held(todo) == {todo[i].receipt_id : i \in 1..Len(todo)}

\* C35: an auto-mapping pass changes nothing in the store except the
\* bill-link of receipts whose link was null when the pass selected them: the
\* rows it selects are receipts without a link, it never adds a row to the
\* ones it holds, and each of its steps leaves every table other than receipt,
\* the set of receipts and every column of every receipt other than the link
\* unchanged, and the link changes only of a receipt it holds.
C35_PassFrame ==
  [][\A p \in Passes :
       PassSteps(p) =>
         /\ UNCHANGED OtherTables
         /\ DOMAIN receipt' = DOMAIN receipt
         /\ \A r \in DOMAIN receipt :
              /\ ReceiptRest(receipt'[r]) = ReceiptRest(receipt[r])
              /\ receipt'[r].bill_reference # receipt[r].bill_reference
                   => r \in Held(pass[p].todo)
         /\ IF pass[p].pc = "select"
            THEN \A r \in Held(pass'[p].todo) : receipt[r].bill_reference = Null
            ELSE Held(pass'[p].todo) \subseteq Held(pass[p].todo)]_vars

\* C35 witness: a pass of a cycle has linked a receipt and the cycle is still
\* in progress
C35_Witness ==
  \E s \in Services :
    /\ counts[s].mapped >= 1
    /\ \E r \in DOMAIN receipt : receipt[r].bill_reference # Null

(***************************************************************************)
(* Claims about the bills that bill-links refer to                         *)
(***************************************************************************)
\* C36: every receipt whose bill-link is not null refers to a bill that exists
\* in the store, whether the link came from a narration reference, from
\* auto-mapping or from manual mapping.
C36_LinkRefersToBill ==
  \A r \in DOMAIN receipt :
    receipt[r].bill_reference # Null => receipt[r].bill_reference \in DOMAIN bill

\* C36 for the links written by auto-mapping passes and by manual mapping
C36_MappedLinkRefersToBill ==
  [][\A r \in DOMAIN receipt :
       ( /\ r \in DOMAIN receipt'
         /\ receipt'[r].bill_reference # receipt[r].bill_reference
         /\ receipt'[r].last_sync_ts = receipt[r].last_sync_ts
         /\ receipt'[r].bill_reference # Null )
       => receipt'[r].bill_reference \in DOMAIN bill]_vars

(***************************************************************************)
(* Claims that compare auto-mapping passes.  The receipts upsert of a      *)
(* cycle stores the narration reference of every voucher as its bill-link, *)
(* so the passes of two cycles that follow each other with nothing in      *)
(* between start from the same bills, receipts and bill-links.             *)
(***************************************************************************)
\* the bill-links of a recorded store
LinksOf(store) == [r \in DOMAIN store.receipts |-> store.receipts[r].bill_reference]

\* two cycles have run one after the other, the first by service s and the
\* second by service t, with no other cycle and no mapping request
RanInTurn(s, t) ==
  /\ Len(done) = 2
  /\ cycles = 2
  /\ mappings = 0
  /\ done[1].service = s /\ done[2].service = t
  /\ ~done[1].overlap /\ ~done[2].overlap

\* the bills of the accounting system have bill dates that differ
DistinctBillDates ==
  \A b, c \in DOMAIN upBills : b # c => upBills[b].bill_date # upBills[c].bill_date

\* C37: on identical store contents the auto-mapper of TallyETL and the
\* real-time mapper (TallyODBCService, TallyXMLETL) produce the same set of
\* bill-links.
C37_MappersAgree ==
  \A s \in {"odbc", "xml"} :
    (RanInTurn("etl", s) \/ RanInTurn(s, "etl"))
      => LinksOf(done[2].store) = LinksOf(done[1].store)

\* C37 over bills of distinct dates, where each candidate query has one answer
C37_MappersAgreeDistinctDates ==
  \A s \in {"odbc", "xml"} :
    ((RanInTurn("etl", s) \/ RanInTurn(s, "etl")) /\ DistinctBillDates)
      => LinksOf(done[2].store) = LinksOf(done[1].store)

\* the two real-time mappers agree with each other over bills of distinct dates
C37_RealTimeMappersAgree ==
  ((RanInTurn("odbc", "xml") \/ RanInTurn("xml", "odbc")) /\ DistinctBillDates)
    => LinksOf(done[2].store) = LinksOf(done[1].store)

\* C38: two auto-mapping passes of the same mapper that start from identical
\* store contents produce identical bill-links, also when several eligible
\* bills of the receipt's party share the bill date.
C38_PassDeterministic ==
  \A s \in Services :
    RanInTurn(s, s) => LinksOf(done[2].store) = LinksOf(done[1].store)

\* C38 over bills of distinct dates
C38_PassDeterministicDistinctDates ==
  \A s \in Services :
    (RanInTurn(s, s) /\ DistinctBillDates)
      => LinksOf(done[2].store) = LinksOf(done[1].store)

(***************************************************************************)
(* Specification of the cycles of TallyODBCService (scheduled) and         *)
(* TallyETL and of the on-demand pass, with queries of a pass that throw   *)
(***************************************************************************)
NextPool ==
  \/ \E path \in {"timer", "script"} : Trigger(path)
  \/ \E s \in Services :
       \/ SyncBills(s)
       \/ SyncReceipts(s)
       \/ EndCycle(s)
  \/ AutoMapRequest
  \/ \E p \in Passes :
       \/ PassSelect(p)
       \/ PassCandidate(p)
       \/ PassUpdate(p)
       \/ PassQueryError(p)

SpecPool == InitSync /\ [][NextPool]_vars

\* C39: every client an auto-mapping pass acquires from the pool is released
\* before the pass returns, on every exit path (no unmapped receipts, normal
\* completion, query error): a pass that is not running holds no client.
C39_ClientsReleased ==
  \A p \in Passes : pass[p].pc = "idle" => clients[p] = 0

\* C39 for the passes of TallyODBCService and TallyXMLETL and the on-demand
\* pass where no query throws
C39_ClientsReleasedRealTime ==
  \A p \in Passes : (MapperOf[p] # "etl" /\ pass[p].pc = "idle") => clients[p] = 0

\* C39, the in-progress flag: a cycle whose pass has returned, by whichever
\* exit, is at its finally block
C39_CycleReachesFinally ==
  [][\A s \in Services :
       (pass[s].pc # "idle" /\ pass'[s].pc = "idle") => cyc'[s] = "finally"]_vars

(***************************************************************************)
(* Specification of the close route next to payment hints and releases:    *)
(* a cashier opens sessions, records hints and asks for the close while a  *)
(* dispatcher releases bills, over a store where a bill may be PAID and    *)
(* the expected-cash function may or may not return a value                *)
(***************************************************************************)
InitGuard ==
  /\ bill = [b \in BillNos |->
               [bill_date |-> 1, party_name |-> "P1", amount |-> 500,
                last_sync_ts |-> 0]]
  /\ \E ref \in {"B1", Null} :
       receipt = [r \in {"R1"} |->
                    [receipt_date |-> 1, party_name |-> "P1", amount |-> 500,
                     bill_reference |-> ref, last_sync_ts |-> 0]]
  /\ ReleaseAtRest
  /\ SyncAtRest
  /\ CashierAtRest
  /\ OtpAtRest
  /\ IngestAtRest
  /\ TillEmpty
  /\ variable_conflict \in ConflictSettings
  /\ GateAtRest

NextGuard ==
  \/ OpenSessionSubmit("q1", "U1")
  \/ OpenSessionExisting("q1")
  \/ OpenSessionInsert("q1")
  \/ OpenSessionRespond("q1")
  \/ \E id \in 1..2, counted_cash \in CountedCash : CloseSession(id, counted_cash)
  \/ \E b \in BillNos : PaymentHint("U1", b, 500, 0, 0)
  \/ \E b \in BillNos : SubmitRequest("q1", NoParams, b, "G1", <<Null, FALSE>>, "self")
  \/ PipelineStep("q1")

SpecGuard == InitGuard /\ [][NextGuard]_vars

\* the bills with a payment hint that the cashier of session x recorded since
\* the session started, whose derived status is PAID and which have no
\* release record
HintedPaidUnreleased(x) ==
  {b \in DOMAIN bill :
     /\ \E ph \in payment_hint :
          /\ ph.bill_no = b
          /\ ph.cashier_id = x.cashier_id
          /\ ph.created_after >= x.id
     /\ bill_status(b).status = "PAID"
     /\ ReleaseCount(b) = 0}

====
